---- MODULE Spec2Model ----
(***************************************************************************)
(* Model of the multi-source analysis route of src/src/index.tsx           *)
(* (app.get('/api/analysis/multi')): four provider adapters run one after  *)
(* the other, their listings are merged by a normalised name/address key,  *)
(* sorted, and summarised into an estimate, a risk level and a             *)
(* reliability value.                                                      *)
(*                                                                         *)
(* JavaScript values are represented as follows.                           *)
(*   - name and address strings are sequences of one-character strings,    *)
(*     so that toLowerCase() and replace(/\s/g, '') are computed           *)
(*     character by character; UNDEF is the value undefined of such a      *)
(*     field;                                                              *)
(*   - other strings (phone, category, url, codes) are TLA+ strings, with  *)
(*     NOSTR for undefined and "" for the empty string (both falsy);       *)
(*   - numbers are naturals, with NAN for NaN, null and undefined (all     *)
(*     falsy, like 0).                                                     *)
(***************************************************************************)
EXTENDS Integers, Sequences, FiniteSets, TLC

\* the server: the route that handles the request, the handler's position,
\* its query, its answer, what the providers' fetches resolved to and the
\* providers a fetch was sent to
VARIABLES dataset, pc, req, status, results, fetched, route, upstream

\* the page: the globals of its script (index.tsx 1389-1399), the badges and
\* radius buttons of class "selected", the sections of class "hidden", the
\* text of the last alert and the calls of its async functions
VARIABLES selectedLat, selectedLon, selectedAddress, selectedCategory,
          selectedCategoryName, selectedRadius, lastAnalysisResult,
          customCategoryInput, selectedBadges, selectedRadiusBtns, hidden,
          alertText, calls

serverVars == <<dataset, pc, req, status, results, fetched, route, upstream>>

pageVars == <<selectedLat, selectedLon, selectedAddress, selectedCategory,
              selectedCategoryName, selectedRadius, lastAnalysisResult,
              customCategoryInput, selectedBadges, selectedRadiusBtns, hidden,
              alertText, calls>>

vars == <<serverVars, pageVars>>

----------------------------------------------------------------------------
(* Bounds of the model. *)

\* the providers return at most this many documents in all (datasets
\* "keys" and "fields")
MaxListings == 3

\* the page's async functions are called at most this many times in all
MaxCalls == 3

\* the longest list a provider returns in dataset "cross"
MaxCross == 7

\* the most items the semas provider returns in dataset "totals"
MaxSemasItems == 12

\* the longest list a provider returns in dataset "failures"
MaxFailing == 1

\* the most items the semas provider returns in dataset "official"
MaxOfficial == 2

----------------------------------------------------------------------------
(* JavaScript values. *)

UNDEF == <<"<undefined>">>
NOSTR == "<undefined>"
NAN == -1

\* truthiness of a string-valued and of a number-valued expression
TruthyS(s) == s # NOSTR /\ s # ""
TruthyC(s) == s # UNDEF /\ s # <<>>
TruthyN(n) == n # NAN /\ n # 0

\* a || b
OrS(a, b) == IF TruthyS(a) THEN a ELSE b
OrC(a, b) == IF TruthyC(a) THEN a ELSE b
OrN(a, b) == IF TruthyN(a) THEN a ELSE b

\* `${x}` of a name or address: undefined prints as "undefined"
Str(s) == IF s = UNDEF THEN <<"u", "n", "d", "e", "f", "i", "n", "e", "d">> ELSE s

UpperCase == <<"A", "B", "C", "D", "E", "F", "G", "H", "I", "J", "K", "L", "M",
               "N", "O", "P", "Q", "R", "S", "T", "U", "V", "W", "X", "Y", "Z">>
LowerCase == <<"a", "b", "c", "d", "e", "f", "g", "h", "i", "j", "k", "l", "m",
               "n", "o", "p", "q", "r", "s", "t", "u", "v", "w", "x", "y", "z">>

\* the characters /\s/ matches, among those the model uses
Whitespace == {" ", "\t", "\n"}

\* the lower-case letter of every upper-case letter
LowerOf ==
    [c \in {UpperCase[i] : i \in 1..Len(UpperCase)} |->
        LowerCase[CHOOSE i \in 1..Len(UpperCase) : UpperCase[i] = c]]

toLowerCaseChar(c) == IF c \in DOMAIN LowerOf THEN LowerOf[c] ELSE c

toLowerCase(s) == [i \in 1..Len(s) |-> toLowerCaseChar(s[i])]

RECURSIVE SelectChars(_, _)
SelectChars(s, drop) ==
    IF s = <<>> THEN <<>>
    ELSE IF Head(s) \in drop THEN SelectChars(Tail(s), drop)
    ELSE <<Head(s)>> \o SelectChars(Tail(s), drop)

\* s.replace(/\s/g, '')
StripWhitespace(s) == SelectChars(s, Whitespace)

\* item.title.replace(/<[^>]*>/g, ''): a "<" with a later ">" is removed
\* together with everything up to the first such ">"
RECURSIVE StripTags(_)
StripTags(s) ==
    IF s = <<>> THEN <<>>
    ELSE IF Head(s) = "<" /\ \E i \in 2..Len(s) : s[i] = ">"
         THEN LET j == CHOOSE i \in 2..Len(s) :
                           s[i] = ">" /\ \A k \in 2..(i - 1) : s[k] # ">"
              IN  StripTags(SubSeq(s, j + 1, Len(s)))
         ELSE <<Head(s)>> \o StripTags(Tail(s))

----------------------------------------------------------------------------
(* The request and the empty report (index.tsx 403-431). *)

Sources == {"kakao", "tmap", "naver", "semas"}

\* c.req.query(name) || fallback, for a query value that is NOSTR when the
\* parameter is missing
QueryOr(v, fallback) == OrS(v, fallback)

\* c.req.query('radius') || '1000', read by parseInt; a request's radius is
\* NAN when the parameter is missing
DefaultRadius == 1000

\* the report before any adapter has run
EmptyResults(q) ==
    [ meta |-> [ coordinates |-> [lon |-> q.cx, lat |-> q.cy],
                 radius |-> IF q.radius = NAN THEN DefaultRadius ELSE q.radius,
                 category |-> QueryOr(q.category, "hair_salon"),
                 address |-> QueryOr(q.address, "") ],
      sources |-> << >>,
      summary |-> << >>,
      competitors |-> << >>,
      categoryBreakdown |-> << >> ]

\* results.sources.<name> = entry
Put(sources, name, entry) ==
    [s \in (DOMAIN sources) \cup {name} |-> IF s = name THEN entry ELSE sources[s]]

\* the catch block of an adapter: results.sources.<name> = { error: error.message }
ErrorEntry(message) == [kind |-> "error", error |-> message]

\* a listing as the adapters hand it to the merge; a field an adapter does
\* not set is undefined
Item(name, category, address, phone, distance, lon, lat, placeUrl, source) ==
    [ name |-> name, category |-> category, address |-> address, phone |-> phone,
      distance |-> distance, lon |-> lon, lat |-> lat, placeUrl |-> placeUrl,
      source |-> source ]

----------------------------------------------------------------------------
(* 1. The kakao adapter (index.tsx 433-471).  A document's distance, x and *)
(* y hold the number parseInt / parseFloat reads from them (NAN if none).  *)

kakaoItem(d) ==
    Item(d.place_name, d.category_name,
         OrC(d.road_address_name, d.address_name),
         d.phone, OrN(d.distance, 0), d.x, d.y, d.place_url, NOSTR)

kakaoAdapter(sources, r) ==
    CASE r.kind = "reject"  -> Put(sources, "kakao", ErrorEntry(r.message))
      [] r.kind = "status"  -> sources
      [] r.kind = "invalid" -> Put(sources, "kakao", ErrorEntry(r.message))
      [] r.kind = "json"    ->
            Put(sources, "kakao",
                [ kind |-> "data",
                  totalCount |-> OrN(r.total_count, 0),
                  returnedCount |-> Len(r.documents),
                  isAccurate |-> ~r.is_end,
                  items |-> [i \in 1..Len(r.documents) |-> kakaoItem(r.documents[i])] ])

----------------------------------------------------------------------------
(* 2. The T-MAP adapter (index.tsx 473-510).  A poi's radius holds the     *)
(* distance in metres that parseFloat(p.radius) * 1000 yields (NAN if the  *)
(* field does not parse).                                                  *)

tmapAddress(p) ==
    IF TruthyC(p.roadName)
    THEN Str(p.upperAddrName) \o <<" ">> \o Str(p.middleAddrName) \o <<" ">>
         \o Str(p.roadName) \o <<" ">> \o Str(p.buildingNo1)
    ELSE Str(p.upperAddrName) \o <<" ">> \o Str(p.middleAddrName) \o <<" ">>
         \o Str(p.lowerAddrName)

tmapItem(p) ==
    Item(p.name, NOSTR, tmapAddress(p), p.telNo, p.radius,
         p.frontLon, p.frontLat, NOSTR, NOSTR)

tmapAdapter(sources, r) ==
    CASE r.kind = "reject"  -> Put(sources, "tmap", ErrorEntry(r.message))
      [] r.kind = "status"  -> sources
      [] r.kind = "invalid" -> Put(sources, "tmap", ErrorEntry(r.message))
      [] r.kind = "json"    ->
            Put(sources, "tmap",
                [ kind |-> "data",
                  totalCount |-> OrN(r.totalCount, 0),
                  returnedCount |-> Len(r.poi),
                  items |-> [i \in 1..Len(r.poi) |-> tmapItem(r.poi[i])] ])

----------------------------------------------------------------------------
(* 3. The naver adapter (index.tsx 512-545).  mapx and mapy hold the       *)
(* coordinate parseInt(..) / 10000000 yields, NAN when the field is        *)
(* missing.                                                                *)

naverItem(item) ==
    Item(StripTags(item.title), item.category,
         OrC(item.roadAddress, item.address), item.telephone, NAN,
         IF TruthyN(item.mapx) THEN item.mapx ELSE NAN,
         IF TruthyN(item.mapy) THEN item.mapy ELSE NAN,
         NOSTR, NOSTR)

\* item.title.replace(..) throws a TypeError when an item has no title
naverThrows(r) == \E i \in 1..Len(r.items) : r.items[i].title = UNDEF

naverAdapter(sources, r) ==
    CASE r.kind = "reject"  -> Put(sources, "naver", ErrorEntry(r.message))
      [] r.kind = "status"  -> sources
      [] r.kind = "invalid" -> Put(sources, "naver", ErrorEntry(r.message))
      [] r.kind = "json"    ->
            IF naverThrows(r)
            THEN Put(sources, "naver",
                     ErrorEntry("Cannot read properties of undefined (reading 'replace')"))
            ELSE Put(sources, "naver",
                     [ kind |-> "data",
                       totalCount |-> OrN(r.total, 0),
                       returnedCount |-> Len(r.items),
                       items |-> [i \in 1..Len(r.items) |-> naverItem(r.items[i])] ])

----------------------------------------------------------------------------
(* 4. The semas adapter (index.tsx 547-616).  The request categories are   *)
(* written in ASCII: hair_salon (미용실), restaurant (음식점), cafe (카페),*)
(* convenience_store (편의점), hospital (병원), pharmacy (약국),           *)
(* academy (학원), gym (헬스장), real_estate (부동산); "etc" is 기타.      *)

categoryCodeMap(category) ==
    CASE category = "hair_salon"        -> {"S207"}
      [] category = "restaurant"        -> {"I201", "I202", "I203", "I204", "I205",
                                            "I206", "I210"}
      [] category = "cafe"              -> {"I212"}
      [] category = "convenience_store" -> {"G204", "G205"}
      [] category = "hospital"          -> {"Q101", "Q102"}
      [] category = "pharmacy"          -> {"G215"}
      [] category = "academy"           -> {"P105", "P106"}
      [] category = "gym"               -> {"R103"}
      [] category = "real_estate"       -> {"L102"}
      [] OTHER                          -> {}

semasMclsNm(item) == OrS(item.indsMclsNm, "etc")

\* a count that skips the items without a mid-class name
semasCategoryCountNamedOnly(items) ==
    [nm \in {items[i].indsMclsNm : i \in {j \in 1..Len(items) : TruthyS(items[j].indsMclsNm)}} |->
        Cardinality({i \in 1..Len(items) : items[i].indsMclsNm = nm})]

\* categoryCount after the forEach: the number of items per mid-class name
semasCategoryCount(items) ==
    [nm \in {semasMclsNm(items[i]) : i \in 1..Len(items)} |->
        Cardinality({i \in 1..Len(items) : semasMclsNm(items[i]) = nm})]

semasItem(item) ==
    Item(item.bizesNm, OrS(item.indsSclsNm, semasMclsNm(item)),
         OrC(item.rdnmAdr, item.lnoAdr), NOSTR, NAN, item.lon, item.lat,
         NOSTR, "semas")

\* targetItems after the forEach: the items whose mid-class code is a target
\* code, in the order of the response
semasTargetItems(items, targetCodes) ==
    LET IsTarget(item) == OrS(item.indsMclsCd, "") \in targetCodes
        selected == SelectSeq(items, IsTarget)
    IN  [i \in 1..Len(selected) |-> semasItem(selected[i])]

\* the number of items the semas entry keeps: targetItems.slice(0, 30)
SemasItemCap == 30

slice(s, n) == SubSeq(s, 1, IF Len(s) < n THEN Len(s) ELSE n)

\* returns <<sources, categoryBreakdown>>
semasAdapter(sources, breakdown, category, r) ==
    CASE r.kind = "reject"  -> <<Put(sources, "semas", ErrorEntry(r.message)), breakdown>>
      [] r.kind = "status"  -> <<sources, breakdown>>
      [] r.kind = "invalid" -> <<Put(sources, "semas", ErrorEntry(r.message)), breakdown>>
      [] r.kind = "json"    ->
            IF r.resultCode # "00" THEN <<sources, breakdown>>
            ELSE LET targetItems == semasTargetItems(r.items, categoryCodeMap(category))
                     categoryCount == semasCategoryCount(r.items)
                 IN  << Put(sources, "semas",
                            [ kind |-> "data",
                              totalCount |-> OrN(r.totalCount, 0),
                              targetCategoryCount |-> Len(targetItems),
                              dataDate |-> OrS(r.stdrYm, ""),
                              categoryBreakdown |-> categoryCount,
                              items |-> slice(targetItems, SemasItemCap) ]),
                        categoryCount >>

----------------------------------------------------------------------------
(* The route /api/semas/radius (index.tsx 192-340), as the function from   *)
(* the query and the answer of the semas provider to the response.  Hangul *)
(* syllables in business names are the tokens "Mi" "Yong" (미용), "He"     *)
(* "Eo" (헤어), "Ka" "Pe" (카페) and "Keo" "Pi" (커피); the mid-class      *)
(* names are written in ASCII.                                             *)

\* categoryMapping[mclsCd]
categoryMapping(code) ==
    CASE code = "S207" -> "hair_beauty"
      [] code = "I201" -> "korean_food"
      [] code = "I202" -> "chinese_food"
      [] code = "I203" -> "japanese_food"
      [] code = "I204" -> "western_food"
      [] code = "I205" -> "bakery_fastfood"
      [] code = "I206" -> "chicken_pizza"
      [] code = "I210" -> "other_snacks"
      [] code = "I211" -> "pub"
      [] code = "I212" -> "non-alcoholic(cafe)"
      [] code = "G204" -> "general_retail"
      [] code = "G205" -> "food_retail"
      [] code = "G215" -> "drug_cosmetics_retail"
      [] code = "Q101" -> "hospital"
      [] code = "Q102" -> "clinic"
      [] code = "P101" -> "school"
      [] code = "P105" -> "general_education"
      [] code = "P106" -> "other_education"
      [] code = "L102" -> "real_estate_service"
      [] code = "R103" -> "sports_service"
      [] OTHER         -> NOSTR

\* categoryToCode[category] || []: the table of the route has the entries
\* of categoryCodeMap
categoryToCode(category) == categoryCodeMap(category)

\* s.includes(sub) for names
includesText(s, sub) ==
    \E i \in 0..(Len(s) - Len(sub)) : SubSeq(s, i + 1, i + Len(sub)) = sub

\* categoryLower.includes('미용') and categoryLower.includes('카페') for the
\* request categories of the model
categoryIncludesBeauty(category) == category = "hair_salon"
categoryIncludesCafe(category) == category = "cafe"

\* isMatch of the second forEach
semasRadiusIsMatch(item, category) ==
    LET bizName == toLowerCase(OrC(item.bizesNm, <<>>))
    IN  \/ /\ categoryIncludesBeauty(category)
           /\ \/ includesText(bizName, <<"Mi", "Yong">>)
              \/ includesText(bizName, <<"He", "Eo">>)
              \/ includesText(bizName, <<"h", "a", "i", "r">>)
        \/ /\ categoryIncludesCafe(category)
           /\ \/ includesText(bizName, <<"Ka", "Pe">>)
              \/ includesText(bizName, <<"c", "a", "f", "e">>)
              \/ includesText(bizName, <<"Keo", "Pi">>)

semasRadiusMclsNm(item) ==
    OrS(item.indsMclsNm, OrS(categoryMapping(OrS(item.indsMclsCd, "")), "etc"))

\* the body of a successful response; branch (brchNm), which the items of
\* the model do not carry, is left out of the competitor list
semasRadiusBody(category, r) ==
    LET items == r.items
        targetCodes == categoryToCode(category)
        isTarget == [i \in 1..Len(items) |->
                        targetCodes # {} /\ OrS(items[i].indsMclsCd, "") \in targetCodes]
        byCode == {i \in 1..Len(items) : isTarget[i]}
        byName == IF byCode = {} /\ TruthyS(category)
                  THEN {i \in 1..Len(items) : semasRadiusIsMatch(items[i], category)}
                  ELSE {}
        flagged == byCode \cup byName
        Competitor(i) ==
            [ name |-> items[i].bizesNm,
              category |-> IF i \in byCode
                           THEN OrS(items[i].indsSclsNm, semasRadiusMclsNm(items[i]))
                           ELSE OrS(items[i].indsSclsNm, items[i].indsMclsNm),
              address |-> OrC(items[i].rdnmAdr, items[i].lnoAdr),
              lon |-> items[i].lon, lat |-> items[i].lat ]
        order == SelectSeq([i \in 1..Len(items) |-> i], LAMBDA i : i \in flagged)
    IN  [ isTargetCategory |-> [i \in 1..Len(items) |-> i \in flagged],
          totalCount |-> OrN(r.totalCount, 0),
          targetCategoryCount |-> Cardinality(flagged),
          competitorList |-> [k \in 1..Len(order) |-> Competitor(order[k])],
          categoryCount |->
              [nm \in {semasRadiusMclsNm(items[i]) : i \in 1..Len(items)} |->
                  Cardinality({i \in 1..Len(items) : semasRadiusMclsNm(items[i]) = nm})],
          dataDate |-> OrS(r.stdrYm, ""),
          searchCategory |-> category ]

\* the response of the route to the query q when the provider answers r
semasRadius(q, r) ==
    IF ~TruthyS(q.cx) \/ ~TruthyS(q.cy)
    THEN [status |-> 400, error |-> "cx and cy are required"]
    ELSE CASE r.kind = "reject"  -> [status |-> 500, error |-> r.message]
           [] r.kind = "status"  -> [status |-> 500, error |-> "semas API error"]
           [] r.kind = "invalid" -> [status |-> 500, error |-> r.message]
           [] r.kind = "json"    ->
                 IF r.resultCode # "00"
                 THEN [status |-> 500, error |-> "API response error"]
                 ELSE [status |-> 200, body |-> semasRadiusBody(QueryOr(q.category, ""), r)]

----------------------------------------------------------------------------
(* Merge and cross-check (index.tsx 618-652).  allCompetitors is a Map in  *)
(* insertion order: a sequence of [key, value] pairs.                      *)

\* a key that keeps the case of the letters
competitorKeyCaseSensitive(item) ==
    StripWhitespace(Str(item.name) \o <<"_">> \o Str(item.address))

\* `${item.name}_${item.address}`.toLowerCase().replace(/\s/g, '')
competitorKey(item) ==
    StripWhitespace(toLowerCase(Str(item.name) \o <<"_">> \o Str(item.address)))

HasKey(all, key) == \E i \in 1..Len(all) : all[i].key = key

IndexOfKey(all, key) == CHOOSE i \in 1..Len(all) : all[i].key = key

includes(list, x) == \E i \in 1..Len(list) : list[i] = x

\* { ...item, sources: [source] }
NewCompetitor(source, item) ==
    [ name |-> item.name, category |-> item.category, address |-> item.address,
      phone |-> item.phone, distance |-> item.distance, lon |-> item.lon,
      lat |-> item.lat, placeUrl |-> item.placeUrl, source |-> item.source,
      sources |-> <<source>> ]

\* a merge that records the source without looking for it in the list
MergeIntoAlwaysPush(existing, source, item) ==
    [ existing EXCEPT
        !.sources  = Append(existing.sources, source),
        !.phone    = IF TruthyS(item.phone) /\ ~TruthyS(existing.phone)
                     THEN item.phone ELSE @,
        !.distance = IF TruthyN(item.distance) /\ ~TruthyN(existing.distance)
                     THEN item.distance ELSE @,
        !.placeUrl = IF TruthyS(item.placeUrl) /\ ~TruthyS(existing.placeUrl)
                     THEN item.placeUrl ELSE @ ]

\* the else branch of addCompetitors: an entry with the key exists
MergeInto(existing, source, item) ==
    [ existing EXCEPT
        !.sources  = IF ~includes(existing.sources, source)
                     THEN Append(existing.sources, source) ELSE @,
        !.phone    = IF TruthyS(item.phone) /\ ~TruthyS(existing.phone)
                     THEN item.phone ELSE @,
        !.distance = IF TruthyN(item.distance) /\ ~TruthyN(existing.distance)
                     THEN item.distance ELSE @,
        !.placeUrl = IF TruthyS(item.placeUrl) /\ ~TruthyS(existing.placeUrl)
                     THEN item.placeUrl ELSE @ ]

\* a forEach body that skips a listing whose key is in the Map already
addCompetitorKeepFirst(all, source, item) ==
    LET key == competitorKey(item)
    IN  IF ~HasKey(all, key)
        THEN Append(all, [key |-> key, value |-> NewCompetitor(source, item)])
        ELSE all

\* the body of items.forEach in addCompetitors
addCompetitor(all, source, item) ==
    LET key == competitorKey(item)
    IN  IF ~HasKey(all, key)
        THEN Append(all, [key |-> key, value |-> NewCompetitor(source, item)])
        ELSE [all EXCEPT ![IndexOfKey(all, key)].value = MergeInto(@, source, item)]

\* items.forEach(..): folded[i] is the Map after the first i items
addCompetitors(all, source, items) ==
    LET folded[i \in 0..Len(items)] ==
            IF i = 0 THEN all ELSE addCompetitor(folded[i - 1], source, items[i])
    IN  folded[Len(items)]

\* results.sources.<name>?.items is an array
HasItems(sources, name) == name \in DOMAIN sources /\ sources[name].kind = "data"

\* an item list that is empty as soon as one adapter has no entry with items
ItemsOfAllOrNothing(sources, name) ==
    IF \A s \in Sources : HasItems(sources, s) THEN sources[name].items ELSE <<>>

ItemsOf(sources, name) == IF HasItems(sources, name) THEN sources[name].items ELSE <<>>

\* the four addCompetitors calls, in the order of the code
MergeOrder == <<"kakao", "tmap", "naver", "semas">>

RECURSIVE mergeFrom(_, _, _)
mergeFrom(all, sources, i) ==
    IF i > Len(MergeOrder) THEN all
    ELSE mergeFrom(addCompetitors(all, MergeOrder[i], ItemsOf(sources, MergeOrder[i])),
                   sources, i + 1)

allCompetitors(sources) == mergeFrom(<<>>, sources, 1)

\* the distance the sort uses for an entry without one
DefaultDistance == 9999

\* the comparator of results.competitors' sort
compareCompetitors(a, b) ==
    IF Len(b.sources) # Len(a.sources)
    THEN Len(b.sources) - Len(a.sources)
    ELSE OrN(a.distance, DefaultDistance) - OrN(b.distance, DefaultDistance)

\* a sort that is not stable: x goes before the first element it is not
\* greater than
InsertSortedBeforeEqual(sorted, x) ==
    IF \E i \in 1..Len(sorted) : compareCompetitors(x, sorted[i]) <= 0
    THEN LET j == CHOOSE i \in 1..Len(sorted) :
                      /\ compareCompetitors(x, sorted[i]) <= 0
                      /\ \A k \in 1..(i - 1) : compareCompetitors(x, sorted[k]) > 0
         IN  SubSeq(sorted, 1, j - 1) \o <<x>> \o SubSeq(sorted, j, Len(sorted))
    ELSE Append(sorted, x)

\* Array.prototype.sort is stable: x goes before the first element it is
\* strictly smaller than
InsertSorted(sorted, x) ==
    IF \E i \in 1..Len(sorted) : compareCompetitors(x, sorted[i]) < 0
    THEN LET j == CHOOSE i \in 1..Len(sorted) :
                      /\ compareCompetitors(x, sorted[i]) < 0
                      /\ \A k \in 1..(i - 1) : compareCompetitors(x, sorted[k]) >= 0
         IN  SubSeq(sorted, 1, j - 1) \o <<x>> \o SubSeq(sorted, j, Len(sorted))
    ELSE Append(sorted, x)

RECURSIVE sortCompetitors(_, _)
sortCompetitors(sorted, rest) ==
    IF rest = <<>> THEN sorted
    ELSE sortCompetitors(InsertSorted(sorted, Head(rest)), Tail(rest))

\* Array.from(allCompetitors.values()).sort(..)
competitorsOf(sources) ==
    LET all == allCompetitors(sources)
    IN  sortCompetitors(<<>>, [i \in 1..Len(all) |-> all[i].value])

----------------------------------------------------------------------------
(* Summary statistics (index.tsx 654-709). *)

\* results.sources.<name>?.<field> || 0
CountOf(sources, name, field) ==
    IF HasItems(sources, name) THEN OrN(sources[name][field], 0) ELSE 0

\* the weights 0.4, 0.3 and 0.3 of the estimate, in tenths
KakaoWeight == 4
TmapWeight == 3
SemasWeight == 3

\* ten times the weighted sum the code rounds
weightedTenths(kakaoCount, tmapCount, semasCount) ==
    kakaoCount * KakaoWeight + tmapCount * TmapWeight + semasCount * SemasWeight

\* Math.round((kakaoCount * 0.4) + (tmapCount * 0.3) + (semasCount * 0.3)).
\* The sum is computed in binary floating point: when its exact value is a
\* half, the computed value can fall just below it (0.3 + 24 * 0.3 is
\* 7.499999999999999), so both neighbours are possible results.
estimatedCounts(kakaoCount, tmapCount, semasCount) ==
    LET t == weightedTenths(kakaoCount, tmapCount, semasCount)
    IN  IF t % 10 = 5 THEN {t \div 10, t \div 10 + 1}
        ELSE {(t + 5) \div 10}

\* risk levels whose upper bounds are exclusive
riskOfExclusive(estimatedCount) ==
    IF estimatedCount = 0
    THEN [riskLevel |-> "BlueOcean", riskColor |-> "blue",
          riskDescription |-> <<"almost no competitors">>]
    ELSE IF estimatedCount < 10
    THEN [riskLevel |-> "Low", riskColor |-> "green",
          riskDescription |-> <<"competitors", estimatedCount, "easy entry">>]
    ELSE IF estimatedCount < 30
    THEN [riskLevel |-> "Medium", riskColor |-> "yellow",
          riskDescription |-> <<"competitors", estimatedCount, "differentiate">>]
    ELSE IF estimatedCount < 70
    THEN [riskLevel |-> "High", riskColor |-> "orange",
          riskDescription |-> <<"competitors", estimatedCount, "fierce competition">>]
    ELSE [riskLevel |-> "VeryHigh", riskColor |-> "red",
          riskDescription |-> <<"competitors", estimatedCount, "red ocean">>]

\* the risk levels are written in ASCII: BlueOcean (블루오션), Low (낮음),
\* Medium (보통), High (높음), VeryHigh (매우 높음)
riskOf(estimatedCount) ==
    IF estimatedCount = 0
    THEN [riskLevel |-> "BlueOcean", riskColor |-> "blue",
          riskDescription |-> <<"almost no competitors">>]
    ELSE IF estimatedCount <= 10
    THEN [riskLevel |-> "Low", riskColor |-> "green",
          riskDescription |-> <<"competitors", estimatedCount, "easy entry">>]
    ELSE IF estimatedCount <= 30
    THEN [riskLevel |-> "Medium", riskColor |-> "yellow",
          riskDescription |-> <<"competitors", estimatedCount, "differentiate">>]
    ELSE IF estimatedCount <= 70
    THEN [riskLevel |-> "High", riskColor |-> "orange",
          riskDescription |-> <<"competitors", estimatedCount, "fierce competition">>]
    ELSE [riskLevel |-> "VeryHigh", riskColor |-> "red",
          riskDescription |-> <<"competitors", estimatedCount, "red ocean">>]

\* results.competitors.filter(c => c.sources.length > 1).length
crossVerifiedOf(competitors) ==
    Cardinality({i \in 1..Len(competitors) : Len(competitors[i].sources) > 1})

\* a reliability that is High from five cross-verified entries on
reliabilityOfFromFive(competitors) ==
    IF crossVerifiedOf(competitors) >= 5 THEN "High" ELSE "Medium"

\* the reliability of the summary: High (높음) or Medium (보통)
reliabilityOf(competitors) ==
    IF crossVerifiedOf(competitors) > 5 THEN "High" ELSE "Medium"

\* Math.PI as the fraction PiNum / PiDen
PiNum == 355
PiDen == 113

\* Math.round(areaKm2 * 100) / 100 in hundredths of a km2, for a radius that
\* is a multiple of 100 m: round(pi * (radius / 100)^2)
areaKm2Hundredths(radius) ==
    LET h == radius \div 100
    IN  (2 * PiNum * h * h + PiDen) \div (2 * PiDen)

\* Math.round(density * 10) / 10 in tenths per km2, for a radius that is a
\* positive multiple of 100 m: round(estimatedCount * 1000 / (pi * (radius / 100)^2))
densityTenths(estimatedCount, radius) ==
    LET h == radius \div 100
    IN  (2 * estimatedCount * 1000 * PiDen + PiNum * h * h) \div (2 * PiNum * h * h)

summaryOf(sources, competitors, radius, estimatedCount) ==
    [ estimatedCompetitors |-> estimatedCount,
      areaKm2 |-> areaKm2Hundredths(radius),
      density |-> densityTenths(estimatedCount, radius),
      riskLevel |-> riskOf(estimatedCount).riskLevel,
      riskColor |-> riskOf(estimatedCount).riskColor,
      riskDescription |-> riskOf(estimatedCount).riskDescription,
      totalStores |-> CountOf(sources, "semas", "totalCount"),
      dataComparison |->
          [ kakao |-> CountOf(sources, "kakao", "totalCount"),
            tmap |-> CountOf(sources, "tmap", "totalCount"),
            semas |-> CountOf(sources, "semas", "targetCategoryCount"),
            crossVerified |-> crossVerifiedOf(competitors) ],
      reliability |-> reliabilityOf(competitors) ]

----------------------------------------------------------------------------
(* What the providers can answer.  The variable dataset names the data the *)
(* providers hold during one behaviour; it never changes.                  *)
(*   "keys"   documents that differ in the spelling of name and address    *)
(*   "fields" documents that differ in distance, phone, category and       *)
(*            coordinates                                                  *)
(*   "totals" empty listings with many reported totals                     *)
(*   "cross"  long listings of the same businesses from kakao and T-MAP    *)
(*   "failures" one document per provider and every way a request fails    *)
(*   "official" semas items that differ in business name, mid-class code   *)
(*            and mid-class name, for several request categories           *)
(*   "missing" documents without a name or without an address             *)
(*   "scenario" kakao returns 5 listings (total 40), T-MAP 3 listings      *)
(*            (total 20) two of which kakao returned too, naver fails and  *)
(*            semas returns 15 cafe items and 40 retail items              *)
(*   "radius" empty listings with a few reported totals, requested for     *)
(*            each radius the page offers                                  *)
(*   "underscore" documents whose name or address holds the character "_"  *)
(*   "routes" empty listings and every way a request fails, for requests   *)
(*            to every route that reads query parameters                   *)
(*   "selection" a user who selects categories and radii on the page       *)
(*   "analysis" a user who clicks on the map, changes the selection and    *)
(*            starts analyses                                              *)
(*   "location" a user who selects locations on the map, by the device's   *)
(*            position and by search                                       *)
(*   "reset"  a user who selects a location, starts analyses and           *)
(*            recommendations and resets the page                          *)

Datasets == {"keys", "fields", "totals", "cross", "failures", "official", "missing",
             "scenario", "radius", "underscore", "routes", "selection", "analysis",
             "location", "reset"}

\* all sequences over S of length at most n
SeqsUpTo(S, n) == UNION {[1..k -> S] : k \in 0..n}

\* the prefixes of the sequence s
Prefixes(s) == {SubSeq(s, 1, k) : k \in 0..Len(s)}

\* n copies of x
Repeat(x, n) == [i \in 1..n |-> x]

NameAb == <<"A", " ", "b">>
Nameab == <<"a", "b">>
Nameac == <<"a", "c">>
AddrC1 == <<"C", " ", "1">>
Addrc1 == <<"c", "1">>
Addrc2 == <<"c", "2">>

NameA == <<"a">>
NameA_b == <<"a", "_", "b">>
AddrC == <<"c">>
AddrB_c == <<"b", "_", "c">>

NameCafe == <<"C", "a", "f", "e">>
NameHair == <<"h", "a", "i", "r">>

Digits == <<"1", "2", "3", "4", "5", "6", "7", "8", "9">>
CrossName(i) == <<"s", Digits[i]>>

KakaoDoc(name, road, addr, phone, distance) ==
    [ place_name |-> name, category_name |-> "food > cafe",
      road_address_name |-> road, address_name |-> addr, phone |-> phone,
      distance |-> distance, x |-> 1270, y |-> 375, place_url |-> "http://k" ]

KakaoDocs(ds) ==
    CASE ds = "keys" ->
            {KakaoDoc(n, a[1], a[2], "02-1", NAN) :
                n \in {NameAb, Nameab}, a \in {<<AddrC1, Addrc2>>, <<UNDEF, Addrc2>>}}
      [] ds = "fields" ->
            {KakaoDoc(Nameab, Addrc1, UNDEF, ph, d) :
                ph \in {"", "02-1"}, d \in {0, 300}}
      [] ds = "failures" -> {KakaoDoc(Nameab, Addrc1, UNDEF, "02-1", 300)}
      [] ds = "official" -> {KakaoDoc(NameCafe, Addrc1, UNDEF, "02-1", 300)}
      [] ds = "missing" ->
            { KakaoDoc(UNDEF, Addrc1, UNDEF, "02-1", 300),
              KakaoDoc(Nameab, UNDEF, UNDEF, "02-2", 200),
              KakaoDoc(Nameab, Addrc1, UNDEF, "02-3", 100) }
      [] ds = "underscore" ->
            { KakaoDoc(NameA_b, AddrC, UNDEF, "02-1", 100),
              KakaoDoc(NameA, AddrB_c, UNDEF, "02-2", 200),
              KakaoDoc(NameA, AddrC, UNDEF, "02-3", 300) }
      [] OTHER -> {}

TmapPoi(name, middle, road, telNo, radius) ==
    [ name |-> name, upperAddrName |-> <<"C">>, middleAddrName |-> middle,
      roadName |-> road, buildingNo1 |-> <<"7">>, lowerAddrName |-> <<>>,
      telNo |-> telNo, radius |-> radius, frontLon |-> 1271, frontLat |-> 376 ]

TmapPois(ds) ==
    CASE ds = "keys" ->
            {TmapPoi(n, m[1], m[2], "031-2", 200) :
                n \in {NameAb, Nameab},
                m \in {<<<<"1">>, <<>>>>, <<<<"1">>, <<"r">>>>}}
      [] ds = "fields" ->
            {TmapPoi(n, <<"1">>, <<>>, ph, d) :
                n \in {Nameab, Nameac}, ph \in {"031-2"}, d \in {NAN, 0, 12000}}
      [] ds = "failures" -> {TmapPoi(Nameac, <<"1">>, <<>>, "031-2", 200)}
      [] ds = "missing" -> {TmapPoi(UNDEF, <<"1">>, <<>>, "031-2", 200)}
      [] OTHER -> {}

NaverItem(title, road, addr, category, mapx) ==
    [ title |-> title, category |-> category, roadAddress |-> road,
      address |-> addr, telephone |-> "", mapx |-> mapx, mapy |-> mapx ]

NaverItems(ds) ==
    CASE ds = "keys" ->
            {NaverItem(t, a[1], a[2], "cafe", 1272) :
                t \in {<<"<", "b", ">", "A", "<", "/", "b", ">", " ", "b">>},
                a \in {<<AddrC1, Addrc2>>, <<<<>>, Addrc2>>}}
      [] ds = "fields" ->
            {NaverItem(t, Addrc1, UNDEF, c[1], c[2]) :
                t \in {Nameab, Nameac}, c \in {<<"", NAN>>, <<"cafe", 1272>>}}
      [] ds = "failures" -> {NaverItem(Nameab, Addrc1, UNDEF, "cafe", 1272)}
      [] ds = "missing" ->
            { NaverItem(UNDEF, Addrc1, UNDEF, "cafe", 1272),
              NaverItem(Nameab, <<>>, UNDEF, "cafe", 1272),
              NaverItem(Nameac, Addrc1, UNDEF, "cafe", 1272) }
      [] ds = "underscore" ->
            { NaverItem(NameA_b, AddrC, UNDEF, "cafe", 1272),
              NaverItem(NameA, AddrB_c, UNDEF, "cafe", 1272) }
      [] OTHER -> {}

SemasRaw(name, road, code, sclsNm) ==
    [ bizesNm |-> name, indsMclsCd |-> code,
      indsMclsNm |-> IF code = "I212" THEN "non-alcoholic" ELSE "beauty",
      indsSclsNm |-> sclsNm, rdnmAdr |-> road, lnoAdr |-> Addrc2,
      lon |-> 1273, lat |-> 378 ]

\* a semas item with the given business name, mid-class code and name
SemasStore(name, code, mclsNm) ==
    [ bizesNm |-> name, indsMclsCd |-> code, indsMclsNm |-> mclsNm,
      indsSclsNm |-> NOSTR, rdnmAdr |-> Addrc1, lnoAdr |-> Addrc2,
      lon |-> 1273, lat |-> 378 ]

SemasRaws(ds) ==
    CASE ds = "keys" ->
            { SemasRaw(NameAb, Addrc1, "I212", "coffee"),
              SemasRaw(Nameab, <<>>, "I212", ""),
              SemasRaw(NameAb, Addrc1, "S207", "hair") }
      [] ds = "fields" ->
            {SemasRaw(n, Addrc1, "I212", "coffee") : n \in {Nameab, Nameac}}
      [] ds = "failures" -> {SemasRaw(Nameac, Addrc1, "I212", "coffee")}
      [] ds = "missing" ->
            { SemasStore(UNDEF, "I212", "non-alcoholic"),
              SemasStore(Nameab, "I212", "non-alcoholic") }
      [] ds = "official" ->
            { SemasStore(NameCafe, "I212", "non-alcoholic"),
              SemasStore(NameCafe, "G204", "retail"),
              SemasStore(NameHair, "G204", "retail"),
              SemasStore(Nameab, "I212", NOSTR),
              SemasStore(Nameab, NOSTR, NOSTR) }
      [] OTHER -> {}

\* the totals a provider reports in dataset "totals"
TotalValues == {0, 1, 5, 10, 11, 30, 31, 70, 100, 101}

\* the totals a provider reports in dataset "radius"
RadiusTotals == {0, 5, 30}

\* the totals a provider reports: `other` outside the datasets "totals" and
\* "radius"
TotalsOf(ds, other) ==
    CASE ds = "totals" -> TotalValues
      [] ds = "radius" -> RadiusTotals
      [] OTHER         -> {other}

\* the radii of the page's radius buttons (index.tsx 1203-1206)
SelectableRadii == {300, 500, 1000, 2000}

\* the document lists a provider can return when `used` documents have been
\* returned by the providers before it
ListsOf(ds, docs, crossList, used) ==
    CASE ds \in {"keys", "fields", "missing", "underscore"} ->
            SeqsUpTo(docs, MaxListings - used)
      [] ds = "cross"              -> Prefixes(crossList)
      [] ds = "failures"           -> SeqsUpTo(docs, MaxFailing)
      [] ds = "official"           -> SeqsUpTo(docs, MaxOfficial)
      [] OTHER                     -> {<<>>}

\* the ways a provider's request fails: fetch rejects, the status is not
\* 2xx, or the body is not JSON
Failures(ds) ==
    CASE ds = "keys"   -> {[kind |-> "reject", message |-> "fetch failed"]}
      [] ds = "fields" -> {[kind |-> "status", status |-> 500]}
      [] ds = "totals" -> {[kind |-> "reject", message |-> "fetch failed"],
                           [kind |-> "status", status |-> 500]}
      [] ds = "cross"  -> {[kind |-> "invalid", message |-> "Unexpected token <"]}
      [] ds = "failures" -> {[kind |-> "reject", message |-> "fetch failed"],
                             [kind |-> "status", status |-> 500],
                             [kind |-> "invalid", message |-> "Unexpected token <"]}
      [] ds = "official" -> {[kind |-> "status", status |-> 500]}
      [] ds = "missing"  -> {[kind |-> "status", status |-> 500]}
      [] ds = "scenario" -> {[kind |-> "reject", message |-> "fetch failed"],
                             [kind |-> "status", status |-> 500],
                             [kind |-> "invalid", message |-> "Unexpected token <"]}
      [] ds = "radius"   -> {[kind |-> "status", status |-> 500]}
      [] ds = "underscore" -> {[kind |-> "status", status |-> 500]}
      [] ds = "routes"   -> {[kind |-> "reject", message |-> "fetch failed"],
                             [kind |-> "status", status |-> 500],
                             [kind |-> "invalid", message |-> "Unexpected token <"]}

\* a 200 response whose body is the provider's error object instead of the
\* data: the fields the adapter reads are missing
EmbeddedErrors(ds, provider) ==
    IF ds # "failures" THEN {}
    ELSE CASE provider = "kakao" ->
                {[kind |-> "json", total_count |-> NAN, is_end |-> FALSE,
                  documents |-> <<>>, errorType |-> "AccessDeniedError"]}
           [] provider = "tmap" ->
                {[kind |-> "json", totalCount |-> NAN, poi |-> <<>>,
                  error |-> "INVALID_API_KEY"]}
           [] provider = "naver" ->
                {[kind |-> "json", total |-> NAN, items |-> <<>>,
                  errorCode |-> "024"]}

\* the number of documents the providers have returned so far
Used(sources) ==
    LET n(s) == IF HasItems(sources, s) THEN sources[s].returnedCount ELSE 0
    IN  n("kakao") + n("tmap") + n("naver")

\* dataset "scenario": kakao's five documents s1 .. s5
ScenarioKakao ==
    { [kind |-> "json", total_count |-> 40, is_end |-> FALSE,
       documents |-> [i \in 1..5 |->
                         KakaoDoc(CrossName(i), Addrc1, UNDEF, "02-1", 100 * i)]] }

\* dataset "scenario": T-MAP's three pois, two of them (i and j) among
\* kakao's documents and s6
ScenarioTmap ==
    { [kind |-> "json", totalCount |-> 20,
       poi |-> [k \in 1..3 |->
                   TmapPoi(CrossName(<<i, j, 6>>[k]), <<"1">>, <<>>, "031-2", 50 * k)]] :
        i \in 1..4, j \in 2..5 }

\* dataset "scenario": semas' 15 cafe items followed by 40 retail items; the
\* cafe items are all the business s1, or t1 .. t15, or those in reverse order
ScenarioSemas ==
    LET Cafe(name) == SemasStore(name, "I212", "cafe")
        Retail == SemasStore(Nameab, "G204", "retail")
        Named(i) == <<"t", Digits[((i - 1) \div 5) + 1], Digits[((i - 1) % 5) + 1]>>
    IN  { [kind |-> "json", resultCode |-> "00", totalCount |-> 55,
           stdrYm |-> "202406", items |-> cafes \o Repeat(Retail, 40)] :
            cafes \in { Repeat(Cafe(CrossName(1)), 15),
                        [i \in 1..15 |-> Cafe(Named(i))],
                        [i \in 1..15 |-> Cafe(Named(16 - i))] } }

KakaoResponses(ds, used) ==
    IF ds = "scenario" THEN ScenarioKakao ELSE
    Failures(ds) \cup EmbeddedErrors(ds, "kakao") \cup
    { [kind |-> "json", total_count |-> t, is_end |-> TRUE, documents |-> l] :
        t \in (IF ds = "totals" THEN TotalValues \cup {NAN} ELSE TotalsOf(ds, 15)),
        l \in ListsOf(ds, KakaoDocs(ds),
                      [i \in 1..MaxCross |->
                          KakaoDoc(CrossName(i), Addrc1, UNDEF, "02-1", 100 * i)],
                      used) }

TmapResponses(ds, used) ==
    IF ds = "scenario" THEN {r \in ScenarioTmap : r.poi[1].name # r.poi[2].name} ELSE
    Failures(ds) \cup EmbeddedErrors(ds, "tmap") \cup
    { [kind |-> "json", totalCount |-> t, poi |-> l] :
        t \in TotalsOf(ds, 20),
        l \in ListsOf(ds, TmapPois(ds),
                      [i \in 1..MaxCross |->
                          TmapPoi(CrossName(i), <<"1">>, <<>>, "031-2", 100 * i)],
                      used) }

NaverResponses(ds, used) ==
    IF ds = "scenario" THEN Failures(ds) ELSE
    Failures(ds) \cup EmbeddedErrors(ds, "naver") \cup
    { [kind |-> "json", total |-> t, items |-> l] :
        t \in (IF ds = "totals" THEN {NAN, 1000} ELSE {40}),
        l \in ListsOf(ds, NaverItems(ds),
                      <<NaverItem(CrossName(1), Addrc1, UNDEF, "cafe", 1272)>>,
                      used) }

SemasResponses(ds, used) ==
    IF ds = "scenario" THEN ScenarioSemas ELSE
    Failures(ds) \cup
    { [kind |-> "json", resultCode |-> "03", totalCount |-> NAN, stdrYm |-> NOSTR,
       items |-> <<>>] } \cup
    { [kind |-> "json", resultCode |-> "00", totalCount |-> 55, stdrYm |-> "202406",
       items |-> l] :
        l \in (IF ds = "totals"
               THEN {Repeat(SemasRaw(Nameab, Addrc1, "I212", "coffee"), n) :
                        n \in {t \in TotalValues : t <= MaxSemasItems}}
               ELSE ListsOf(ds, SemasRaws(ds),
                            <<SemasRaw(CrossName(2), Addrc1, "I212", "coffee")>>,
                            used)) }

\* the query parameters of a request; a missing parameter is NOSTR (NAN for
\* the radius)
Requests(ds) ==
    [ cx : {NOSTR, "", "127.0"}, cy : {NOSTR, "37.5"},
      radius : CASE ds = "totals" -> {NAN, 500}
                 [] ds = "radius" -> SelectableRadii
                 [] OTHER         -> {500},
      category : CASE ds = "cross"    -> {NOSTR, "cafe"}
                   [] ds = "official" -> {NOSTR, "cafe", "hair_salon", "bakery"}
                   [] OTHER           -> {"cafe"},
      address : {"Seoul Gangnam-gu Yeoksam-dong 1"} ]

----------------------------------------------------------------------------
(* The handler of /api/analysis/multi as a state machine.  pc is the       *)
(* provider whose response the handler awaits; fetched holds, for every    *)
(* provider that has answered, what its fetch resolved to (the locals      *)
(* kakaoResponse / kakaoData and their likes).                             *)

NoRequest == [cx |-> NOSTR, cy |-> NOSTR, radius |-> NAN, category |-> NOSTR,
              address |-> NOSTR]

\* the text of the badge and the category name '전체'
NameAll == <<"a", "l", "l">>

\* the address '' and the value null of lastAnalysisResult
NoAddress == [kind |-> "", lat |-> NAN, lon |-> NAN]
NoResult == [call |-> 0, address |-> NoAddress, radius |-> NAN, category |-> NOSTR,
             searchLocation |-> NoAddress]

\* the sections that carry the class "hidden" when the page is loaded
\* (index.tsx 1097, 1103, 1184, 1226, 1235, 1310)
InitiallyHidden == {"searchResults", "selectedLocation", "selectedCategoryInfo",
                    "loadingSection", "resultSection", "recommendationSection"}

\* the page as loaded (index.tsx 1389-1399, 1204)
InitPage ==
    /\ selectedLat = NAN
    /\ selectedLon = NAN
    /\ selectedAddress = NoAddress
    /\ selectedCategory = ""
    /\ selectedCategoryName = NameAll
    /\ selectedRadius = 500
    /\ lastAnalysisResult = NoResult
    /\ customCategoryInput = <<>>
    /\ selectedBadges = {}
    /\ selectedRadiusBtns = {500}
    /\ hidden = InitiallyHidden
    /\ alertText = NOSTR
    /\ calls = <<>>

InitFor(ds) ==
    /\ dataset = ds
    /\ pc = "idle"
    /\ req = NoRequest
    /\ status = 0
    /\ results = << >>
    /\ fetched = << >>
    /\ route = NOSTR
    /\ upstream = {}
    /\ InitPage

Init == \E ds \in Datasets : InitFor(ds)

\* the routes that read query parameters
MultiRoute == "/api/analysis/multi"
ProxyRoutes == {"/api/tmap/search", "/api/tmap/reverse-geocode", "/api/semas/area",
                "/api/semas/upjong", "/api/semas/radius", "/api/naver/local"}

\* a check that answers 400 only when all the required parameters are missing
missingParameterAll(rt, q) ==
    CASE rt = "/api/tmap/search"          -> ~TruthyS(q.keyword)
      [] rt = "/api/tmap/reverse-geocode" -> ~TruthyS(q.lat) /\ ~TruthyS(q.lon)
      [] rt = "/api/semas/area"           -> ~TruthyS(q.code)
      [] rt = "/api/semas/upjong"         -> ~TruthyS(q.code)
      [] rt = "/api/semas/radius"         -> ~TruthyS(q.cx) /\ ~TruthyS(q.cy)
      [] rt = "/api/naver/local"          -> ~TruthyS(q.query)
      [] rt = MultiRoute                  -> ~TruthyS(q.cx) /\ ~TruthyS(q.cy)

\* the check each handler starts with: if (!keyword), if (!lat || !lon),
\* if (!code), if (!cx || !cy), if (!query)
missingParameter(rt, q) ==
    CASE rt = "/api/tmap/search"          -> ~TruthyS(q.keyword)
      [] rt = "/api/tmap/reverse-geocode" -> ~TruthyS(q.lat) \/ ~TruthyS(q.lon)
      [] rt = "/api/semas/area"           -> ~TruthyS(q.code)
      [] rt = "/api/semas/upjong"         -> ~TruthyS(q.code)
      [] rt = "/api/semas/radius"         -> ~TruthyS(q.cx) \/ ~TruthyS(q.cy)
      [] rt = "/api/naver/local"          -> ~TruthyS(q.query)
      [] rt = MultiRoute                  -> ~TruthyS(q.cx) \/ ~TruthyS(q.cy)

\* index.tsx 410-412: cx and cy are required
BadRequest ==
    /\ pc = "idle"
    /\ \E q \in Requests(dataset) :
          /\ missingParameter(MultiRoute, q)
          /\ req' = q
    /\ status' = 400
    /\ results' = [error |-> "cx and cy are required"]
    /\ pc' = "done"
    /\ route' = MultiRoute
    /\ UNCHANGED <<dataset, fetched, upstream>>
    /\ UNCHANGED pageVars

\* index.tsx 403-443: the report is created and the kakao request is sent
Request ==
    /\ pc = "idle"
    /\ \E q \in Requests(dataset) :
          /\ ~missingParameter(MultiRoute, q)
          /\ req' = q
          /\ results' = EmptyResults(q)
    /\ pc' = "kakao"
    /\ route' = MultiRoute
    /\ upstream' = upstream \cup {"kakao"}
    /\ UNCHANGED <<dataset, status, fetched>>
    /\ UNCHANGED pageVars

\* index.tsx 443-484: the kakao request completes, the T-MAP request is sent
KakaoRespond ==
    /\ pc = "kakao"
    /\ \E r \in KakaoResponses(dataset, Used(results.sources)) :
          /\ results' = [results EXCEPT !.sources = kakaoAdapter(@, r)]
          /\ fetched' = Put(fetched, "kakao", r)
    /\ pc' = "tmap"
    /\ upstream' = upstream \cup {"tmap"}
    /\ UNCHANGED <<dataset, req, status, route>>
    /\ UNCHANGED pageVars

\* index.tsx 484-517: the T-MAP request completes, the naver request is sent
TmapRespond ==
    /\ pc = "tmap"
    /\ \E r \in TmapResponses(dataset, Used(results.sources)) :
          /\ results' = [results EXCEPT !.sources = tmapAdapter(@, r)]
          /\ fetched' = Put(fetched, "tmap", r)
    /\ pc' = "naver"
    /\ upstream' = upstream \cup {"naver"}
    /\ UNCHANGED <<dataset, req, status, route>>
    /\ UNCHANGED pageVars

\* index.tsx 517-551: the naver request completes, the semas request is sent
NaverRespond ==
    /\ pc = "naver"
    /\ \E r \in NaverResponses(dataset, Used(results.sources)) :
          /\ results' = [results EXCEPT !.sources = naverAdapter(@, r)]
          /\ fetched' = Put(fetched, "naver", r)
    /\ pc' = "semas"
    /\ upstream' = upstream \cup {"semas"}
    /\ UNCHANGED <<dataset, req, status, route>>
    /\ UNCHANGED pageVars

\* index.tsx 551-711: the semas request completes; the listings are merged
\* and sorted, the summary is computed and the report is returned
SemasRespond ==
    /\ pc = "semas"
    /\ \E r \in SemasResponses(dataset, Used(results.sources)) :
          LET after == semasAdapter(results.sources, results.categoryBreakdown,
                                    results.meta.category, r)
              sources == after[1]
              competitors == competitorsOf(sources)
          IN  \E estimatedCount \in
                    estimatedCounts(CountOf(sources, "kakao", "totalCount"),
                                    CountOf(sources, "tmap", "totalCount"),
                                    CountOf(sources, "semas", "targetCategoryCount")) :
                  /\ results' = [results EXCEPT
                                    !.sources = sources,
                                    !.categoryBreakdown = after[2],
                                    !.competitors = competitors,
                                    !.summary = summaryOf(sources, competitors,
                                                          results.meta.radius,
                                                          estimatedCount)]
                  /\ fetched' = Put(fetched, "semas", r)
    /\ status' = 200
    /\ pc' = "done"
    /\ UNCHANGED <<dataset, req, route, upstream>>
    /\ UNCHANGED pageVars

----------------------------------------------------------------------------
(* The proxy routes (index.tsx 66-397): each checks its required query     *)
(* parameters, sends one request to its provider and relays the answer.    *)

\* the query parameters a route reads
queryNames(rt) ==
    CASE rt = "/api/tmap/search"          -> {"keyword"}
      [] rt = "/api/tmap/reverse-geocode" -> {"lat", "lon"}
      [] rt = "/api/semas/area"           -> {"divId", "code"}
      [] rt = "/api/semas/upjong"         -> {"divId", "code", "indsLclsCd"}
      [] rt = "/api/semas/radius"         -> {"cx", "cy", "radius", "category"}
      [] rt = "/api/naver/local"          -> {"query"}

\* the queries of a request to a proxy route: every parameter is missing,
\* empty or given
ProxyQueries(rt) == [queryNames(rt) -> {NOSTR, "", "1"}]

\* the text of the route's 400 answer
requiredError(rt) ==
    CASE rt = "/api/tmap/search"          -> "keyword is required"
      [] rt = "/api/tmap/reverse-geocode" -> "lat and lon are required"
      [] rt = "/api/semas/area"           -> "code is required"
      [] rt = "/api/semas/upjong"         -> "code is required"
      [] rt = "/api/semas/radius"         -> "cx and cy are required"
      [] rt = "/api/naver/local"          -> "query is required"

\* the provider a proxy route forwards to
providerOf(rt) ==
    CASE rt \in {"/api/tmap/search", "/api/tmap/reverse-geocode"} -> "tmap"
      [] rt \in {"/api/semas/area", "/api/semas/upjong", "/api/semas/radius"} -> "semas"
      [] rt = "/api/naver/local" -> "naver"

\* what the provider of a proxy route can answer
ProxyResponses(ds, rt) ==
    IF rt = "/api/semas/radius" THEN SemasResponses(ds, 0)
    ELSE Failures(ds) \cup {[kind |-> "json", data |-> "data"]}

\* the answer of a proxy route to the query q when its provider answers r:
\* the provider's data, or 500 and an error text
relay(rt, q, r) ==
    IF rt = "/api/semas/radius" THEN semasRadius(q, r)
    ELSE CASE r.kind = "reject"  -> [status |-> 500, error |-> r.message]
           [] r.kind = "status"  -> [status |-> 500, error |-> "API Error"]
           [] r.kind = "invalid" -> [status |-> 500, error |-> r.message]
           [] r.kind = "json"    -> [status |-> 200, body |-> r]

\* a required parameter is missing or empty: 400, and no request is sent
ProxyBadRequest ==
    /\ pc = "idle"
    /\ \E rt \in ProxyRoutes :
          /\ \E q \in ProxyQueries(rt) :
                /\ missingParameter(rt, q)
                /\ req' = q
          /\ route' = rt
          /\ results' = [error |-> requiredError(rt)]
    /\ status' = 400
    /\ pc' = "done"
    /\ UNCHANGED <<dataset, fetched, upstream>>
    /\ UNCHANGED pageVars

\* the request is forwarded to the provider
ProxyRequest ==
    /\ pc = "idle"
    /\ \E rt \in ProxyRoutes :
          /\ \E q \in ProxyQueries(rt) :
                /\ ~missingParameter(rt, q)
                /\ req' = q
          /\ route' = rt
          /\ upstream' = upstream \cup {providerOf(rt)}
    /\ pc' = "proxy"
    /\ UNCHANGED <<dataset, status, results, fetched>>
    /\ UNCHANGED pageVars

\* the provider's answer is relayed
ProxyRespond ==
    /\ pc = "proxy"
    /\ \E r \in ProxyResponses(dataset, route) :
          LET answer == relay(route, req, r)
          IN  /\ status' = answer.status
              /\ results' = IF answer.status = 200 THEN answer.body
                            ELSE [error |-> answer.error]
              /\ fetched' = Put(fetched, providerOf(route), r)
    /\ pc' = "done"
    /\ UNCHANGED <<dataset, req, route, upstream>>
    /\ UNCHANGED pageVars

----------------------------------------------------------------------------
(* The page's script (index.tsx 1385-2440).  Category names, badge texts   *)
(* and typed input are sequences of characters; the names are written in   *)
(* ASCII.  The map is taken to be loaded (initMap retries until it is).    *)

\* the globals and page elements of the category, the radius and the
\* location
categoryVars == <<selectedCategory, selectedCategoryName, customCategoryInput,
                  selectedBadges>>
radiusVars == <<selectedRadius, selectedRadiusBtns>>
locationVars == <<selectedLat, selectedLon, selectedAddress>>

\* the category badges in document order (index.tsx 1151-1174):음식점, 소매,
\* 생활서비스, 스포츠/오락, 부동산, 학문/교육, 의료, 전체
categoryBadges ==
    << [code |-> "Q", text |-> <<" ", "f", "o", "o", "d", " ">>],
       [code |-> "D", text |-> <<" ", "r", "e", "t", "a", "i", "l", " ">>],
       [code |-> "F", text |-> <<" ", "l", "i", "f", "e", " ">>],
       [code |-> "N", text |-> <<" ", "s", "p", "o", "r", "t", "s", " ">>],
       [code |-> "L", text |-> <<" ", "e", "s", "t", "a", "t", "e", " ">>],
       [code |-> "P", text |-> <<" ", "s", "c", "h", "o", "o", "l", " ">>],
       [code |-> "R", text |-> <<" ", "m", "e", "d", "i", "c", "a", "l", " ">>],
       [code |-> "", text |-> <<" ">> \o NameAll \o <<" ">>] >>

\* four entries of categoryList in its order (index.tsx 1410, 1519, 1522,
\* 1542): 카페, 태권도 (N), PC방, 태권도 (P)
categoryList ==
    << [name |-> <<"c", "a", "f", "e">>, code |-> "Q"],
       [name |-> <<"t", "k", "d">>, code |-> "N"],
       [name |-> <<"P", "C">>, code |-> "N"],
       [name |-> <<"t", "k", "d">>, code |-> "P"] >>

\* s.trim()
trim(s) ==
    LET inner == {i \in 1..Len(s) : s[i] \notin Whitespace}
    IN  IF inner = {} THEN <<>>
        ELSE SubSeq(s, CHOOSE i \in inner : \A j \in inner : i <= j,
                       CHOOSE i \in inner : \A j \in inner : i >= j)

\* categoryList.find(cat => cat.name.toLowerCase() === input.toLowerCase()):
\* the index of the first such entry, 0 if there is none
find(input) ==
    LET matches == {i \in 1..Len(categoryList) :
                       toLowerCase(categoryList[i].name) = toLowerCase(input)}
    IN  IF matches = {} THEN 0 ELSE CHOOSE i \in matches : \A j \in matches : i <= j

\* the badges the user clicks, the list entries the user picks and the text
\* the user types into categorySearchInput
ClickedBadges(ds) == IF ds = "selection" THEN 1..Len(categoryBadges) ELSE {1}
PickedCategories(ds) == IF ds = "selection" THEN 1..Len(categoryList) ELSE {1}
TypedInputs(ds) ==
    IF ds = "selection"
    THEN { <<>>, <<" ">>, <<"p", "c">>, <<" ", "t", "k", "d">>, <<"P", "e", "t", " ">> }
    ELSE { <<"P", "e", "t", " ">> }
ClickedRadii(ds) == IF ds = "selection" THEN SelectableRadii ELSE {2000}

\* a selectCategory that leaves the other badges as they are
selectCategoryKeepBadges ==
    /\ \E i \in ClickedBadges(dataset) :
          LET el == categoryBadges[i]
          IN  /\ selectedBadges' = selectedBadges \cup {el.code}
              /\ selectedCategory' = el.code
              /\ selectedCategoryName' = trim(el.text)
    /\ hidden' = hidden \ {"selectedCategoryInfo"}
    /\ UNCHANGED <<customCategoryInput, lastAnalysisResult, alertText, calls>>
    /\ UNCHANGED <<radiusVars, locationVars, serverVars>>

\* selectCategory(el) (index.tsx 1896-1904): a badge is clicked
selectCategory ==
    /\ \E i \in ClickedBadges(dataset) :
          LET el == categoryBadges[i]
          IN  /\ selectedBadges' = {el.code}
              /\ selectedCategory' = el.code
              /\ selectedCategoryName' = trim(el.text)
    /\ hidden' = hidden \ {"selectedCategoryInfo"}
    /\ UNCHANGED <<customCategoryInput, lastAnalysisResult, alertText, calls>>
    /\ UNCHANGED <<radiusVars, locationVars, serverVars>>

\* item.onclick of filterCategories (index.tsx 1604-1618): an entry of the
\* autocomplete list is clicked
autocompleteClick ==
    /\ \E i \in PickedCategories(dataset) :
          LET cat == categoryList[i]
          IN  /\ selectedCategory' = cat.code
              /\ selectedCategoryName' = cat.name
              /\ customCategoryInput' = cat.name
    /\ selectedBadges' = {}
    /\ hidden' = hidden \ {"selectedCategoryInfo"}
    /\ UNCHANGED <<lastAnalysisResult, alertText, calls>>
    /\ UNCHANGED <<radiusVars, locationVars, serverVars>>

\* setCustomCategory() (index.tsx 1625-1654): Enter or the button, with the
\* text typed so far
setCustomCategory ==
    /\ \E typed \in TypedInputs(dataset) :
          LET input == trim(typed)
              found == find(input)
          IN  IF input = <<>>
              THEN /\ alertText' = "enter a category name"
                   /\ UNCHANGED <<categoryVars, hidden>>
              ELSE /\ selectedCategory' = IF found # 0 THEN categoryList[found].code ELSE ""
                   /\ selectedCategoryName' =
                          IF found # 0 THEN categoryList[found].name ELSE input
                   /\ customCategoryInput' =
                          IF found # 0 THEN categoryList[found].name ELSE input
                   /\ selectedBadges' = {}
                   /\ hidden' = hidden \ {"selectedCategoryInfo"}
                   /\ UNCHANGED alertText
    /\ UNCHANGED <<lastAnalysisResult, calls>>
    /\ UNCHANGED <<radiusVars, locationVars, serverVars>>

\* a selectRadius that leaves the other buttons as they are
selectRadiusKeepButtons ==
    /\ \E r \in ClickedRadii(dataset) :
          /\ selectedRadiusBtns' = selectedRadiusBtns \cup {r}
          /\ selectedRadius' = r
    /\ UNCHANGED <<lastAnalysisResult, hidden, alertText, calls>>
    /\ UNCHANGED <<categoryVars, locationVars, serverVars>>

\* selectRadius(el) (index.tsx 1909-1914): a radius button is clicked
selectRadius ==
    /\ \E r \in ClickedRadii(dataset) :
          /\ selectedRadiusBtns' = {r}
          /\ selectedRadius' = r
    /\ UNCHANGED <<lastAnalysisResult, hidden, alertText, calls>>
    /\ UNCHANGED <<categoryVars, locationVars, serverVars>>

\* resetAll() (index.tsx 1715-1751)
resetAll ==
    /\ selectedLat' = NAN
    /\ selectedLon' = NAN
    /\ selectedAddress' = NoAddress
    /\ selectedCategory' = ""
    /\ selectedCategoryName' = NameAll
    /\ customCategoryInput' = <<>>
    /\ selectedBadges' = {}
    /\ selectedRadius' = 500
    /\ selectedRadiusBtns' = {500}
    /\ hidden' = hidden \cup {"selectedCategoryInfo", "searchResults", "selectedLocation",
                             "loadingSection", "resultSection", "recommendationSection"}
    /\ UNCHANGED <<lastAnalysisResult, alertText, calls>>
    /\ UNCHANGED serverVars

\* the steps of a user who selects categories and radii
SelectionNext ==
    \/ selectCategory
    \/ autocompleteClick
    \/ setCustomCategory
    \/ selectRadius
    \/ resetAll

----------------------------------------------------------------------------
(* The page's async functions.  calls lists their calls in the order they  *)
(* were made: the function, the await the call has reached ("done" when it *)
(* has returned, "failed" when it has returned through its catch block)    *)
(* and what it put into the URL of its first request.                      *)

\* the addresses selectedAddress can hold for the coordinates (lat, lon):
\* the address T-MAP returns for them, the text "위도: lat, 경도: lon", and the
\* address and name of the search result at them
ReverseAddress(lat, lon) == [kind |-> "address", lat |-> lat, lon |-> lon]
CoordsAddress(lat, lon) == [kind |-> "coords", lat |-> lat, lon |-> lon]
PoiAddress(lat, lon) == [kind |-> "poi", lat |-> lat, lon |-> lon]

\* truthiness of an address and a || b
TruthyA(a) == a.kind # ""
OrA(a, b) == IF TruthyA(a) THEN a ELSE b

\* '미용실', the category sent when selectedCategoryName is empty
NameHairSalon == <<"h", "a", "i", "r">>

\* the coordinates of map clicks, of the device and of search results
MapPoints(ds) ==
    CASE ds = "reset"    -> {<<0, 127>>, <<37, 127>>}
      [] ds = "location" -> {<<36, 127>>}
      [] OTHER           -> {<<37, 127>>}
DevicePoints(ds) == {<<37, 127>>}
PoiPoints(ds) == {<<38, 128>>}

Call(fn, stage, lat, lon, radius, category, address) ==
    [ fn |-> fn, stage |-> stage,
      sent |-> [lat |-> lat, lon |-> lon, radius |-> radius, category |-> category,
                address |-> address] ]

\* the calls of fn that await stage
Awaiting(fn, stage) ==
    {i \in 1..Len(calls) : calls[i].fn = fn /\ calls[i].stage = stage}

\* the call i goes on to stage
Proceed(i, stage) == [calls EXCEPT ![i].stage = stage]

\* setLocation(lat, lon); reverseGeocode(lat, lon) up to its fetch
\* (index.tsx 1825-1846, 1867-1869)
locate(lat, lon) ==
    /\ Len(calls) < MaxCalls
    /\ selectedLat' = lat
    /\ selectedLon' = lon
    /\ calls' = Append(calls, Call("reverseGeocode", "fetch", lat, lon, NAN, <<>>, NoAddress))
    /\ UNCHANGED <<selectedAddress, lastAnalysisResult, hidden, alertText>>
    /\ UNCHANGED <<categoryVars, radiusVars, serverVars>>

\* the click listener of the map (index.tsx 1691-1696)
mapClick == \E pt \in MapPoints(dataset) : locate(pt[1], pt[2])

\* getCurrentLocation() and its callbacks (index.tsx 1804-1823)
getCurrentLocation ==
    \/ \E pt \in DevicePoints(dataset) : locate(pt[1], pt[2])
    \/ /\ alertText' = "cannot get the position"
       /\ UNCHANGED <<lastAnalysisResult, hidden, calls>>
       /\ UNCHANGED <<locationVars, categoryVars, radiusVars, serverVars>>

\* reverseGeocode after its fetch (index.tsx 1870-1884): the address of the
\* coordinates it was called with, or their text when the request fails
reverseGeocodeRespond ==
    /\ \E i \in Awaiting("reverseGeocode", "fetch") :
          /\ \E address \in {ReverseAddress(calls[i].sent.lat, calls[i].sent.lon),
                             CoordsAddress(calls[i].sent.lat, calls[i].sent.lon)} :
                selectedAddress' = address
          /\ calls' = Proceed(i, "done")
    /\ hidden' = hidden \ {"selectedLocation"}
    /\ UNCHANGED <<selectedLat, selectedLon, lastAnalysisResult, alertText>>
    /\ UNCHANGED <<categoryVars, radiusVars, serverVars>>

\* searchLocation() up to its fetch (index.tsx 1757-1764)
searchLocation ==
    /\ \/ /\ alertText' = "enter a keyword"
          /\ UNCHANGED calls
       \/ /\ Len(calls) < MaxCalls
          /\ calls' = Append(calls, Call("searchLocation", "fetch", NAN, NAN, NAN, <<>>,
                                         NoAddress))
          /\ UNCHANGED alertText
    /\ UNCHANGED <<lastAnalysisResult, hidden>>
    /\ UNCHANGED <<locationVars, categoryVars, radiusVars, serverVars>>

\* searchLocation after its fetch (index.tsx 1765-1802): an error, no
\* result, or the list of results
searchLocationRespond ==
    /\ \E i \in Awaiting("searchLocation", "fetch") :
          calls' = Proceed(i, "done")
    /\ \/ /\ \E text \in {"search error", "no results", "search failed"} :
                alertText' = text
          /\ UNCHANGED hidden
       \/ /\ hidden' = hidden \ {"searchResults"}
          /\ UNCHANGED alertText
    /\ UNCHANGED lastAnalysisResult
    /\ UNCHANGED <<locationVars, categoryVars, radiusVars, serverVars>>

\* item.onclick of searchLocation (index.tsx 1789-1796): a search result is
\* picked
searchResultClick ==
    /\ "searchResults" \notin hidden
    /\ \E pt \in PoiPoints(dataset) :
          /\ selectedLat' = pt[1]
          /\ selectedLon' = pt[2]
          /\ selectedAddress' = PoiAddress(pt[1], pt[2])
    /\ hidden' = (hidden \ {"selectedLocation"}) \cup {"searchResults"}
    /\ UNCHANGED <<lastAnalysisResult, alertText, calls>>
    /\ UNCHANGED <<categoryVars, radiusVars, serverVars>>

\* the test both startAnalysis and requestCategoryRecommendation start with:
\* if (!selectedLat || !selectedLon)
noLocation(lat, lon) == ~TruthyN(lat) \/ ~TruthyN(lon)

\* startAnalysis() up to the fetch of fetchStoreData (index.tsx 2017-2029,
\* 2059-2068)
startAnalysis ==
    /\ IF noLocation(selectedLat, selectedLon)
       THEN /\ alertText' = "select a location first"
            /\ UNCHANGED <<hidden, calls>>
       ELSE /\ Len(calls) < MaxCalls
            /\ hidden' = (hidden \ {"loadingSection"}) \cup {"resultSection"}
            /\ calls' = Append(calls,
                               Call("startAnalysis", "fetchStoreData", selectedLat,
                                    selectedLon, selectedRadius,
                                    OrC(selectedCategoryName, NameHairSalon),
                                    selectedAddress))
            /\ UNCHANGED alertText
    /\ UNCHANGED lastAnalysisResult
    /\ UNCHANGED <<locationVars, categoryVars, radiusVars, serverVars>>

\* analyzeStoreData(data) (index.tsx 2082-2145) for the data the server
\* returns to the request `sent`, whose meta repeats the request's address,
\* category and radius; call is the call that received the data
analyzeStoreData(call, sent) ==
    [ call |-> call,
      address |-> OrA(selectedAddress, sent.address),
      radius |-> selectedRadius,
      category |-> OrC(selectedCategoryName, sent.category),
      searchLocation |-> sent.address ]

\* startAnalysis after fetchStoreData (index.tsx 2029-2038, 2068-2080, 2048-2052):
\* the request failed or returned an error, or the data are analysed
fetchStoreDataRespond ==
    /\ \E i \in Awaiting("startAnalysis", "fetchStoreData") :
          \/ /\ calls' = Proceed(i, "failed")
             /\ hidden' = hidden \cup {"loadingSection"}
             /\ alertText' = "analysis error"
             /\ UNCHANGED lastAnalysisResult
          \/ /\ calls' = Proceed(i, "performAIAnalysis")
             /\ lastAnalysisResult' = analyzeStoreData(i, calls[i].sent)
             /\ UNCHANGED <<hidden, alertText>>
    /\ UNCHANGED <<locationVars, categoryVars, radiusVars, serverVars>>

\* startAnalysis after performAIAnalysis, which catches its own errors
\* (index.tsx 2040-2046, 2252-2273)
performAIAnalysisRespond ==
    /\ \E i \in Awaiting("startAnalysis", "performAIAnalysis") :
          calls' = Proceed(i, "done")
    /\ hidden' = (hidden \cup {"loadingSection"}) \ {"resultSection"}
    /\ UNCHANGED <<lastAnalysisResult, alertText>>
    /\ UNCHANGED <<locationVars, categoryVars, radiusVars, serverVars>>

\* requestCategoryRecommendation() up to its first fetch (index.tsx 1919-1930)
requestCategoryRecommendation ==
    /\ IF noLocation(selectedLat, selectedLon)
       THEN /\ alertText' = "select a location first"
            /\ UNCHANGED <<hidden, calls>>
       ELSE /\ Len(calls) < MaxCalls
            /\ hidden' = hidden \ {"loadingSection"}
            /\ calls' = Append(calls,
                               Call("requestCategoryRecommendation", "semas", selectedLat,
                                    selectedLon, selectedRadius, <<>>, NoAddress))
            /\ UNCHANGED alertText
    /\ UNCHANGED lastAnalysisResult
    /\ UNCHANGED <<locationVars, categoryVars, radiusVars, serverVars>>

\* requestCategoryRecommendation after the store data (index.tsx 1931-1987,
\* 2002-2006): an error, or the prompt is sent
recommendationDataRespond ==
    /\ \E i \in Awaiting("requestCategoryRecommendation", "semas") :
          \/ /\ calls' = Proceed(i, "failed")
             /\ hidden' = hidden \cup {"loadingSection"}
             /\ alertText' = "recommendation error"
          \/ /\ calls' = Proceed(i, "gemini")
             /\ UNCHANGED <<hidden, alertText>>
    /\ UNCHANGED lastAnalysisResult
    /\ UNCHANGED <<locationVars, categoryVars, radiusVars, serverVars>>

\* requestCategoryRecommendation after the AI's answer (index.tsx 1989-2006)
recommendationAIRespond ==
    /\ \E i \in Awaiting("requestCategoryRecommendation", "gemini") :
          \/ /\ calls' = Proceed(i, "done")
             /\ hidden' = (hidden \cup {"loadingSection"}) \ {"recommendationSection"}
             /\ UNCHANGED alertText
          \/ /\ calls' = Proceed(i, "failed")
             /\ hidden' = hidden \cup {"loadingSection"}
             /\ alertText' = "recommendation error"
    /\ UNCHANGED lastAnalysisResult
    /\ UNCHANGED <<locationVars, categoryVars, radiusVars, serverVars>>

\* the steps of a user who clicks on the map, changes the selection and
\* starts analyses
AnalysisNext ==
    \/ mapClick
    \/ reverseGeocodeRespond
    \/ selectCategory
    \/ setCustomCategory
    \/ selectRadius
    \/ resetAll
    \/ startAnalysis
    \/ fetchStoreDataRespond
    \/ performAIAnalysisRespond

\* the steps of a user who selects locations
LocationNext ==
    \/ mapClick
    \/ getCurrentLocation
    \/ reverseGeocodeRespond
    \/ searchLocation
    \/ searchLocationRespond
    \/ searchResultClick

\* the steps of a user who selects a location, starts analyses and
\* recommendations and resets the page
ResetNext ==
    \/ mapClick
    \/ reverseGeocodeRespond
    \/ startAnalysis
    \/ fetchStoreDataRespond
    \/ performAIAnalysisRespond
    \/ requestCategoryRecommendation
    \/ recommendationDataRespond
    \/ recommendationAIRespond
    \/ resetAll

\* the steps of the page
PageNext ==
    \/ SelectionNext
    \/ mapClick
    \/ getCurrentLocation
    \/ reverseGeocodeRespond
    \/ searchLocation
    \/ searchLocationRespond
    \/ searchResultClick
    \/ startAnalysis
    \/ fetchStoreDataRespond
    \/ performAIAnalysisRespond
    \/ requestCategoryRecommendation
    \/ recommendationDataRespond
    \/ recommendationAIRespond

\* the steps of /api/analysis/multi
MultiNext ==
    \/ BadRequest
    \/ Request
    \/ KakaoRespond
    \/ TmapRespond
    \/ NaverRespond
    \/ SemasRespond

\* the steps of the proxy routes
ProxyNext ==
    \/ ProxyBadRequest
    \/ ProxyRequest
    \/ ProxyRespond

Next ==
    \/ MultiNext
    \/ ProxyNext
    \/ PageNext

Spec == Init /\ [][Next]_vars

\* the same handler over one dataset each
SpecKeys == InitFor("keys") /\ [][MultiNext]_vars
SpecFields == InitFor("fields") /\ [][MultiNext]_vars
SpecTotals == InitFor("totals") /\ [][MultiNext]_vars
SpecCross == InitFor("cross") /\ [][MultiNext]_vars
SpecFailures == InitFor("failures") /\ [][MultiNext]_vars
SpecOfficial == InitFor("official") /\ [][MultiNext]_vars
SpecScenario == InitFor("scenario") /\ [][MultiNext]_vars
SpecMissing == InitFor("missing") /\ [][MultiNext]_vars
SpecRadius == InitFor("radius") /\ [][MultiNext]_vars
SpecUnderscore == InitFor("underscore") /\ [][MultiNext]_vars

\* the page of a user who selects categories and radii
SpecSelection == InitFor("selection") /\ [][SelectionNext]_vars

\* the page of the users of the datasets "analysis", "location" and "reset"
SpecAnalysis == InitFor("analysis") /\ [][AnalysisNext]_vars
SpecLocation == InitFor("location") /\ [][LocationNext]_vars
SpecReset == InitFor("reset") /\ [][ResetNext]_vars

\* every route that reads query parameters
SpecRoutes == InitFor("routes") /\ [][MultiNext \/ ProxyNext]_vars

\* the handler when T-MAP may stay silent for ever: a request arrives and
\* kakao, naver and semas answer every request they receive, while nothing
\* obliges T-MAP to answer; the handler has no timer of its own
SpecSilentTmap ==
    /\ InitFor("failures")
    /\ [][MultiNext]_vars
    /\ WF_vars(BadRequest \/ Request)
    /\ WF_vars(KakaoRespond)
    /\ WF_vars(NaverRespond)
    /\ WF_vars(SemasRespond)

----------------------------------------------------------------------------
(* Properties of the returned report. *)

\* the handler has returned its report
Done == pc = "done" /\ status = 200

\* the listings handed to the merge, as <<source, index>> pairs
Listings ==
    UNION {{<<src, i>> : i \in 1..Len(ItemsOf(results.sources, src))} : src \in Sources}

ListingAt(p) == ItemsOf(results.sources, p[1])[p[2]]

\* a name or an address after lower-casing and removing all whitespace
Normalized(s) == StripWhitespace(toLowerCase(Str(s)))

\* the normalized name and address of a listing or an entry
NormalizedPair(x) == [name |-> Normalized(x.name), address |-> Normalized(x.address)]

SameNormalizedName(x, y) == NormalizedPair(x).name = NormalizedPair(y).name
SameNormalizedAddress(x, y) == NormalizedPair(x).address = NormalizedPair(y).address

\* for entry[k] the normalized name and address of the k-th competitor entry
\* and listing[p] those of listing p: every listing has one single entry,
\* which lists its source; listings with equal names and addresses share
\* it, and a listing with the same name at another address has another one
MergedByNameAndAddress(entry, listing) ==
    LET EntriesOf(p) == {k \in DOMAIN entry : entry[k] = listing[p]}
    IN  \A p \in DOMAIN listing :
            /\ Cardinality(EntriesOf(p)) = 1
            /\ \A q \in DOMAIN listing :
                   /\ listing[p] = listing[q] =>
                          \A k \in EntriesOf(p) :
                              /\ includes(results.competitors[k].sources, p[1])
                              /\ includes(results.competitors[k].sources, q[1])
                   /\ (/\ listing[p].name = listing[q].name
                       /\ listing[p].address # listing[q].address) =>
                          /\ EntriesOf(q) # {}
                          /\ EntriesOf(p) \cap EntriesOf(q) = {}

\* C1: two listings whose name and address are equal after lower-casing and
\* removing all whitespace end up in one single competitor entry whose
\* sources contain the source of each of them; a listing with the same
\* normalized name but a different normalized address is in another entry.
C1_SameKeyMerged ==
    Done =>
        MergedByNameAndAddress(
            [k \in 1..Len(results.competitors) |-> NormalizedPair(results.competitors[k])],
            [p \in Listings |-> NormalizedPair(ListingAt(p))])

\* two providers spell one business differently and a third listing has the
\* same name at another address: two entries result
C1_Witness ==
    /\ Done
    /\ Len(results.competitors) = 2
    /\ \E p \in Listings, q \in Listings, r \in Listings :
          /\ p[1] # q[1]
          /\ ListingAt(p).name # ListingAt(q).name
          /\ SameNormalizedName(ListingAt(p), ListingAt(q))
          /\ SameNormalizedAddress(ListingAt(p), ListingAt(q))
          /\ SameNormalizedName(ListingAt(p), ListingAt(r))
          /\ ~SameNormalizedAddress(ListingAt(p), ListingAt(r))

\* C2: no listing is lost by the merge: every listing handed to the merge
\* has exactly one competitor entry with its dedup key, that entry lists the
\* listing's source, and there are as many entries as distinct dedup keys.
C2_NoListingLost ==
    Done =>
        LET entryKey == [k \in 1..Len(results.competitors) |->
                            competitorKey(results.competitors[k])]
            listingKey == [p \in Listings |-> competitorKey(ListingAt(p))]
        IN  /\ \A p \in Listings :
                  LET same == {k \in 1..Len(results.competitors) :
                                  entryKey[k] = listingKey[p]}
                  IN  /\ Cardinality(same) = 1
                      /\ \A k \in same : includes(results.competitors[k].sources, p[1])
            /\ Len(results.competitors) = Cardinality({listingKey[p] : p \in Listings})

\* three listings from two providers share two keys
C2_Witness ==
    /\ Done
    /\ Cardinality(Listings) = 3
    /\ Cardinality({p[1] : p \in Listings}) = 2
    /\ Len(results.competitors) = 2
    /\ \E k \in 1..Len(results.competitors) : Len(results.competitors[k].sources) = 2

\* the claimed order of two neighbours a, b of the competitors list: more
\* sources first; with equally many sources a known distance before an
\* unknown one and the smaller known distance first
KnownDistance(c) == c.distance # NAN

InClaimedOrder(a, b) ==
    /\ Len(a.sources) >= Len(b.sources)
    /\ Len(a.sources) = Len(b.sources) =>
          /\ KnownDistance(b) => KnownDistance(a)
          /\ (KnownDistance(a) /\ KnownDistance(b)) => a.distance <= b.distance

\* C3: the competitors list is ordered by descending number of sources and
\* then by ascending distance, every entry of unknown distance after every
\* entry of known distance (a known 0 and known distances >= 9999 included).
C3_SortedBySourcesThenDistance ==
    Done =>
        \A k \in 1..Len(results.competitors), l \in 1..Len(results.competitors) :
            k < l => InClaimedOrder(results.competitors[k], results.competitors[l])

\* C4: every competitor entry has a non-empty sources list without
\* repetition, holding only providers that returned a listing with the
\* entry's key; so listings of one single provider never make an entry
\* cross-verified.
C4_SourcesAreProviders ==
    Done =>
        LET listingKey == [p \in Listings |-> competitorKey(ListingAt(p))]
        IN  \A k \in 1..Len(results.competitors) :
                LET c == results.competitors[k]
                    key == competitorKey(c)
                    providers == {p[1] : p \in {q \in Listings : listingKey[q] = key}}
                IN  /\ Len(c.sources) >= 1
                    /\ \A i \in 1..Len(c.sources), j \in 1..Len(c.sources) :
                           c.sources[i] = c.sources[j] => i = j
                    /\ {c.sources[i] : i \in 1..Len(c.sources)} = providers
                    /\ Len(c.sources) > 1 => Cardinality(providers) > 1

\* one provider returned two listings with one key, and the entry has one source
C4_Witness ==
    /\ Done
    /\ \E p \in Listings, q \in Listings :
          /\ p[1] = q[1] /\ p[2] # q[2]
          /\ competitorKey(ListingAt(p)) = competitorKey(ListingAt(q))
          /\ \E k \in 1..Len(results.competitors) :
                /\ competitorKey(results.competitors[k]) = competitorKey(ListingAt(p))
                /\ results.competitors[k].sources = <<p[1]>>

\* all listings in the order the merge visits them
MergedListings ==
    ItemsOf(results.sources, "kakao") \o ItemsOf(results.sources, "tmap")
    \o ItemsOf(results.sources, "naver") \o ItemsOf(results.sources, "semas")

\* the optional fields of a listing and whether a listing has a value for one
OptionalFields == {"phone", "distance", "lon", "lat", "category"}

HasValue(x, f) ==
    IF f \in {"distance", "lon", "lat"} THEN x[f] # NAN ELSE TruthyS(x[f])

NoValue(f) == IF f \in {"distance", "lon", "lat"} THEN NAN ELSE NOSTR

\* the value of field f of the first listing with key `key` that has one
FirstValue(key, f) ==
    LET with == {i \in 1..Len(MergedListings) :
                    /\ competitorKey(MergedListings[i]) = key
                    /\ HasValue(MergedListings[i], f)}
    IN  IF with = {} THEN NoValue(f)
        ELSE MergedListings[CHOOSE i \in with : \A j \in with : i <= j][f]

\* C5: each optional field of a merged entry (phone, distance, coordinates,
\* category) holds the value of the first listing, in the order of the
\* merge, that has a value for it; a present value (a distance of 0
\* included) is never overwritten.
C5_FirstValueWins ==
    Done =>
        \A k \in 1..Len(results.competitors), f \in OptionalFields :
            LET c == results.competitors[k]
            IN  \/ c[f] = FirstValue(competitorKey(c), f)
                \/ ~HasValue(c, f) /\ FirstValue(competitorKey(c), f) = NoValue(f)

\* the weighted sources that reported a total
WeightedSources == {"kakao", "tmap", "semas"}

Reporting == {src \in WeightedSources : HasItems(results.sources, src)}

WeightOf(src) ==
    CASE src = "kakao" -> KakaoWeight
      [] src = "tmap"  -> TmapWeight
      [] src = "semas" -> SemasWeight

ReportedTotal(src) ==
    IF src = "semas" THEN results.sources[src].targetCategoryCount
    ELSE results.sources[src].totalCount

\* the sum of F over the reporting sources
SumOverReporting(F(_)) ==
    LET term(src) == IF src \in Reporting THEN F(src) ELSE 0
    IN  term("kakao") + term("tmap") + term("semas")

\* C6: the estimate is the weighted sum of the totals of the reporting
\* sources with their weights rescaled to sum to 1, rounded: a source that
\* failed does not count as a total of 0.
C6_WeightsRedistributed ==
    (Done /\ Reporting # {}) =>
        LET W == SumOverReporting(WeightOf)
            WT(src) == WeightOf(src) * ReportedTotal(src)
            T == SumOverReporting(WT)
            e == results.summary.estimatedCompetitors
        IN  /\ 2 * (e * W - T) <= W
            /\ 2 * (T - e * W) <= W

\* C7: when at least one source reported a total, the estimate lies between
\* the smallest and the largest reported total.
C7_EstimateWithinReportedTotals ==
    (Done /\ Reporting # {}) =>
        /\ \E src \in Reporting :
              ReportedTotal(src) <= results.summary.estimatedCompetitors
        /\ \E src \in Reporting :
              ReportedTotal(src) >= results.summary.estimatedCompetitors

\* the risk tiers in ascending order
TierRank(tier) ==
    CASE tier = "BlueOcean" -> 0
      [] tier = "Low"       -> 1
      [] tier = "Medium"    -> 2
      [] tier = "High"      -> 3
      [] tier = "VeryHigh"  -> 4

\* C8: the risk tier depends on the estimated count alone: 0 BlueOcean,
\* 1-10 Low, 11-30 Medium, 31-70 High, above 70 VeryHigh; it is one of the
\* five tiers and no smaller count has a higher tier.
C8_RiskTierBreakpoints ==
    Done =>
        LET n == results.summary.estimatedCompetitors
            tier == results.summary.riskLevel
        IN  /\ n >= 0
            /\ n = 0 <=> tier = "BlueOcean"
            /\ n \in 1..10 <=> tier = "Low"
            /\ n \in 11..30 <=> tier = "Medium"
            /\ n \in 31..70 <=> tier = "High"
            /\ n > 70 <=> tier = "VeryHigh"
            /\ \A m \in 0..n : TierRank(riskOf(m).riskLevel) <= TierRank(tier)

\* an estimate just above the last breakpoint
C8_Witness ==
    /\ Done
    /\ results.summary.estimatedCompetitors = 71
    /\ results.summary.riskLevel = "VeryHigh"

\* C9: crossVerified is the number of competitor entries with more than
\* one source, and reliability is High exactly when crossVerified exceeds
\* 5 and Medium otherwise.
C9_CrossVerifiedAndReliability ==
    Done =>
        LET n == Cardinality({k \in 1..Len(results.competitors) :
                                 Len(results.competitors[k].sources) >= 2})
        IN  /\ results.summary.dataComparison.crossVerified = n
            /\ results.summary.reliability = "High" <=> n > 5
            /\ results.summary.reliability = "Medium" <=> n <= 5

\* six entries are confirmed by two providers
C9_Witness ==
    /\ Done
    /\ results.summary.dataComparison.crossVerified = 6
    /\ results.summary.reliability = "High"

\* C10: when all four adapters fail, the estimate is 0 and reliability is
\* the value unavailable, which no run with successful adapters produces.
C10_AllFailedIsUnavailable ==
    (Done /\ \A src \in Sources : ~HasItems(results.sources, src)) =>
        /\ results.summary.estimatedCompetitors = 0
        /\ results.summary.reliability = "unavailable"

\* the request carried cx and cy and the handler has returned
Answered == pc = "done" /\ TruthyS(req.cx) /\ TruthyS(req.cy)

\* the fetch of provider src delivered a body the adapter could read
Delivered(src) ==
    /\ src \in DOMAIN fetched
    /\ fetched[src].kind = "json"
    /\ src = "semas" => fetched[src].resultCode = "00"
    /\ src = "naver" => ~naverThrows(fetched[src])

\* the listings in the body provider src delivered, as the adapter hands
\* them to the merge
DeliveredItems(src) ==
    IF ~Delivered(src) THEN <<>>
    ELSE LET r == fetched[src]
         IN  CASE src = "kakao" -> [i \in 1..Len(r.documents) |-> kakaoItem(r.documents[i])]
               [] src = "tmap"  -> [i \in 1..Len(r.poi) |-> tmapItem(r.poi[i])]
               [] src = "naver" -> [i \in 1..Len(r.items) |-> naverItem(r.items[i])]
               [] src = "semas" ->
                    slice(semasTargetItems(r.items, categoryCodeMap(results.meta.category)),
                          SemasItemCap)

\* the dedup keys of the listings provider src delivered
DeliveredKeys(src) ==
    {competitorKey(DeliveredItems(src)[i]) : i \in 1..Len(DeliveredItems(src))}

SummaryFields ==
    {"estimatedCompetitors", "areaKm2", "density", "riskLevel", "riskColor",
     "riskDescription", "totalStores", "dataComparison", "reliability"}

\* C11: whichever adapters fail (network error, non-2xx status, provider
\* error code, malformed payload), a request with cx and cy is answered
\* with status 200 and a report that has a summary, and the competitors are
\* exactly the merge of the listings of the adapters that delivered: one
\* entry per dedup key of a delivered listing, listing the providers that
\* delivered that key.
C11_FailuresNeverAbort ==
    Answered =>
        /\ status = 200
        /\ DOMAIN results.summary = SummaryFields
        /\ LET entryKey == [k \in 1..Len(results.competitors) |->
                               competitorKey(results.competitors[k])]
               keysOf == [src \in Sources |-> DeliveredKeys(src)]
           IN  /\ {entryKey[k] : k \in DOMAIN entryKey} = UNION {keysOf[src] : src \in Sources}
               /\ \A k \in DOMAIN entryKey, l \in DOMAIN entryKey :
                      entryKey[k] = entryKey[l] => k = l
               /\ \A k \in DOMAIN entryKey :
                      {results.competitors[k].sources[i] :
                          i \in 1..Len(results.competitors[k].sources)}
                      = {src \in Sources : entryKey[k] \in keysOf[src]}

\* kakao's fetch rejects, naver's body is not JSON, T-MAP and semas deliver
\* the same business: the report holds that one entry
C11_Witness ==
    /\ Answered
    /\ fetched["kakao"].kind = "reject"
    /\ fetched["naver"].kind = "invalid"
    /\ Len(DeliveredItems("tmap")) = 1
    /\ Len(DeliveredItems("semas")) = 1
    /\ Len(results.competitors) = 1
    /\ results.competitors[1].sources = <<"tmap", "semas">>

\* a 200 response that carries the provider's error instead of data
EmbeddedError(r) ==
    /\ r.kind = "json"
    /\ \/ DOMAIN r \cap {"errorType", "error", "errorCode"} # {}
       \/ "resultCode" \in DOMAIN r /\ r.resultCode # "00"

\* the request to provider src failed in one of the four ways
Failed(src) ==
    /\ src \in DOMAIN fetched
    /\ \/ fetched[src].kind \in {"reject", "status", "invalid"}
       \/ EmbeddedError(fetched[src])
       \/ src = "naver" /\ fetched[src].kind = "json" /\ naverThrows(fetched[src])

\* the report has an entry for src that marks it as failed
MarkedFailed(src) ==
    /\ src \in DOMAIN results.sources
    /\ results.sources[src].kind = "error"

\* C12: for each adapter and each way it fails (rejected fetch, non-2xx
\* status, error code in a 200 response, malformed payload) the sources
\* section of the report has an entry for the adapter that marks it as
\* failed, so it differs from the entry of an adapter that delivered zero
\* listings.
C12_FailureIsMarked ==
    Answered => \A src \in Sources : Failed(src) => MarkedFailed(src)

\* two category breakdowns hold the same counts
SameBreakdown(a, b) ==
    /\ \A x \in DOMAIN a : x \in DOMAIN b /\ a[x] = b[x]
    /\ \A x \in DOMAIN b : x \in DOMAIN a

\* the competitor entries grouped by their category
GroupedByCategory ==
    [c \in {results.competitors[k].category : k \in 1..Len(results.competitors)} |->
        Cardinality({k \in 1..Len(results.competitors) :
                        results.competitors[k].category = c})]

\* the semas adapter delivered a breakdown with at least one category
OfficialBreakdown ==
    Delivered("semas") /\ fetched["semas"].items # <<>>

\* C13: when the semas adapter fails or yields no breakdown, the report's
\* categoryBreakdown is the grouping of the competitor entries by category
\* (empty only without entries); when semas produced a breakdown, that one
\* is reported.
C13_BreakdownFallsBack ==
    Answered =>
        IF OfficialBreakdown
        THEN SameBreakdown(results.categoryBreakdown,
                           semasCategoryCount(fetched["semas"].items))
        ELSE /\ SameBreakdown(results.categoryBreakdown, GroupedByCategory)
             /\ DOMAIN results.categoryBreakdown = {} => results.competitors = <<>>

\* the sum of the counts of a category breakdown
RECURSIVE SumOfCounts(_, _)
SumOfCounts(breakdown, names) ==
    IF names = {} THEN 0
    ELSE LET nm == CHOOSE x \in names : TRUE
         IN  breakdown[nm] + SumOfCounts(breakdown, names \ {nm})

\* the mid-class name the breakdown files an item of the semas response under
FiledUnder(item) == IF TruthyS(item.indsMclsNm) THEN item.indsMclsNm ELSE "etc"

\* C14: when the semas adapter delivered, categoryBreakdown maps each
\* mid-class name to the number of items of the semas response with that
\* name and the counts sum to the number of those items; the answers of
\* kakao, T-MAP and naver leave categoryBreakdown as it was created.
C14_BreakdownFromOfficialOnly ==
    /\ (pc \in Sources \/ (Answered /\ ~Delivered("semas"))) =>
           DOMAIN results.categoryBreakdown = {}
    /\ (Answered /\ Delivered("semas")) =>
           LET items == fetched["semas"].items
               breakdown == results.categoryBreakdown
           IN  /\ DOMAIN breakdown = {FiledUnder(items[i]) : i \in 1..Len(items)}
               /\ \A nm \in DOMAIN breakdown :
                      breakdown[nm] =
                          Cardinality({i \in 1..Len(items) : FiledUnder(items[i]) = nm})
               /\ SumOfCounts(breakdown, DOMAIN breakdown) = Len(items)

\* kakao delivered a listing with a category, semas delivered two items, one
\* of them without a mid-class name
C14_Witness ==
    /\ Answered
    /\ Len(DeliveredItems("kakao")) = 1
    /\ Delivered("semas")
    /\ Len(fetched["semas"].items) = 2
    /\ DOMAIN results.categoryBreakdown = {"etc", "retail"}
    /\ results.categoryBreakdown["etc"] = 1

\* the request to provider src has been sent and its answer is awaited
InFlight(src) == pc = src

\* C15: the four provider requests are issued concurrently: while the
\* handler is at work, the request of every provider that has not answered
\* yet is in flight, none waits for the answer of another provider.
C15_RequestsConcurrent ==
    pc \in Sources => \A src \in Sources \ DOMAIN fetched : InFlight(src)

\* C16: when one provider (T-MAP) never answers while the others do, the
\* handler still returns its report eventually.
C16_SilentProviderDoesNotStall ==
    (pc \in Sources) ~> (pc = "done")

\* the scenario of C17: kakao delivered 5 listings with total 40, T-MAP 3
\* listings with total 20 of which exactly two have the name and address of
\* a kakao listing, naver failed, and semas reports 15 target items with
\* the breakdown cafe 15, retail 40
InScenario ==
    /\ Answered
    /\ Delivered("kakao") /\ Delivered("tmap") /\ Failed("naver") /\ Delivered("semas")
    /\ Len(DeliveredItems("kakao")) = 5 /\ fetched["kakao"].total_count = 40
    /\ Cardinality(DeliveredKeys("kakao")) = 5
    /\ Len(DeliveredItems("tmap")) = 3 /\ fetched["tmap"].totalCount = 20
    /\ Cardinality(DeliveredKeys("tmap")) = 3
    /\ Cardinality(DeliveredKeys("tmap") \cap DeliveredKeys("kakao")) = 2
    /\ results.sources["semas"].targetCategoryCount = 15
    /\ SameBreakdown(semasCategoryCount(fetched["semas"].items),
                     [nm \in {"cafe", "retail"} |-> IF nm = "cafe" THEN 15 ELSE 40])

\* C17: in that scenario the report has exactly 6 competitor entries,
\* crossVerified is 2, the estimate is computed from the totals 40, 20 and
\* 15, and categoryBreakdown is cafe 15, retail 40.
C17_ScenarioReport ==
    InScenario =>
        /\ Len(results.competitors) = 6
        /\ results.summary.dataComparison.crossVerified = 2
        /\ results.summary.estimatedCompetitors \in estimatedCounts(40, 20, 15)
        /\ SameBreakdown(results.categoryBreakdown,
                         [nm \in {"cafe", "retail"} |-> IF nm = "cafe" THEN 15 ELSE 40])

\* the listing or entry has no name or no address
Lacking(x) == ~TruthyC(x.name) \/ ~TruthyC(x.address)

\* the dedup keys of the delivered listings that have a name and an address
CompleteKeys ==
    UNION {{competitorKey(DeliveredItems(src)[i]) :
               i \in {j \in 1..Len(DeliveredItems(src)) : ~Lacking(DeliveredItems(src)[j])}} :
           src \in Sources}

\* C18: a listing without a name or without an address is dropped from the
\* merge: no competitor entry lacks a name or an address, and the entries
\* are exactly those of the complete listings.
C18_IncompleteListingDropped ==
    Answered =>
        /\ \A k \in 1..Len(results.competitors) : ~Lacking(results.competitors[k])
        /\ {competitorKey(results.competitors[k]) : k \in 1..Len(results.competitors)}
           = CompleteKeys

\* the items of a semas response the claim counts as competitors for a
\* category: those whose code matches, or, when no code matches, those
\* whose business name contains a keyword of the category
CodeMatched(items, category) ==
    {i \in 1..Len(items) : OrS(items[i].indsMclsCd, "") \in categoryCodeMap(category)}

NameMatched(items, category) ==
    {i \in 1..Len(items) : semasRadiusIsMatch(items[i], category)}

ClaimedTargets(items, category) ==
    IF CodeMatched(items, category) = {} THEN NameMatched(items, category)
    ELSE CodeMatched(items, category)

\* the route /api/semas/radius flags and counts the claimed targets
RadiusCountsClaimedTargets ==
    (Answered /\ Delivered("semas")) =>
        LET items == fetched["semas"].items
            out == semasRadius(req, fetched["semas"])
            claimed == ClaimedTargets(items, QueryOr(req.category, ""))
        IN  /\ out.status = 200
            /\ out.body.targetCategoryCount = Cardinality(claimed)
            /\ Len(out.body.competitorList) = Cardinality(claimed)
            /\ \A i \in 1..Len(items) : out.body.isTargetCategory[i] <=> i \in claimed

\* the semas adapter of /api/analysis/multi counts the claimed targets
MultiCountsClaimedTargets ==
    (Answered /\ Delivered("semas")) =>
        LET claimed == ClaimedTargets(fetched["semas"].items, results.meta.category)
        IN  /\ results.sources["semas"].targetCategoryCount = Cardinality(claimed)
            /\ results.summary.dataComparison.semas = Cardinality(claimed)

\* C19: when no semas item matches the category by code, every item whose
\* business name contains a keyword of the category is flagged and counted
\* as a competitor, in /api/semas/radius and in the semas adapter of
\* /api/analysis/multi alike; with a code match the names are not looked at.
C19_NameFallback ==
    RadiusCountsClaimedTargets /\ MultiCountsClaimedTargets

\* C20: the report holds no text of an error an adapter raised: no entry
\* of results.sources has an error field, whatever the adapters caught.
C20_NoErrorTextInReport ==
    Answered =>
        \A src \in DOMAIN results.sources : "error" \notin DOMAIN results.sources[src]

----------------------------------------------------------------------------
(* Area and density of the summary. *)

\* the reported areaKm2 (in hundredths) is within 0.001 km2 of
\* pi * (radius / 1000)^2
AreaWithinThousandth(areaHundredths, radius) ==
    LET h == radius \div 100
        d == areaHundredths * PiDen - PiNum * h * h
    IN  /\ 10 * d <= PiDen
        /\ 10 * d >= 0 - PiDen

\* the reported density (in tenths) times the reported areaKm2 (in
\* hundredths) is the estimate
DensityIsEstimateOverArea(densityTenths_, areaHundredths, estimatedCount) ==
    densityTenths_ * areaHundredths = estimatedCount * 1000

\* C21: for each selectable radius the reported areaKm2 is within 0.001 of
\* pi * (radius / 1000)^2 and the reported density is exactly the estimated
\* competitor count divided by the reported areaKm2
C21_AreaAndDensity ==
    (Done /\ req.radius \in SelectableRadii) =>
        /\ AreaWithinThousandth(results.summary.areaKm2, req.radius)
        /\ DensityIsEstimateOverArea(results.summary.density, results.summary.areaKm2,
                                     results.summary.estimatedCompetitors)

----------------------------------------------------------------------------
(* The competitors list as a function of the listings. *)

\* the fixed order in which the sources' listings are merged
SourceRank(src) ==
    CASE src = "kakao" -> 1 [] src = "tmap" -> 2 [] src = "naver" -> 3 [] src = "semas" -> 4

\* listing p is handed to the merge before listing q
ListedBefore(p, q) ==
    \/ SourceRank(p[1]) < SourceRank(q[1])
    \/ p[1] = q[1] /\ p[2] < q[2]

\* the first listing with the given dedup key
FirstListing(listingKey, key) ==
    CHOOSE p \in DOMAIN listingKey :
        /\ listingKey[p] = key
        /\ \A q \in DOMAIN listingKey : listingKey[q] = key => (q = p \/ ListedBefore(p, q))

\* the distance an entry is sorted by
SortDistance(c) == IF c.distance = NAN \/ c.distance = 0 THEN 9999 ELSE c.distance

\* entry a (first listed as p) precedes entry b (first listed as q) in the
\* one order the listings determine: more sources, then the smaller sort
\* distance, then the earlier first listing
Precedes(a, p, b, q) ==
    \/ Len(a.sources) > Len(b.sources)
    \/ /\ Len(a.sources) = Len(b.sources)
       /\ SortDistance(a) < SortDistance(b)
    \/ /\ Len(a.sources) = Len(b.sources)
       /\ SortDistance(a) = SortDistance(b)
       /\ ListedBefore(p, q)

\* the entries k and l are tied in number of sources and in sort distance
Tied(k, l) ==
    /\ Len(results.competitors[k].sources) = Len(results.competitors[l].sources)
    /\ SortDistance(results.competitors[k]) = SortDistance(results.competitors[l])

\* C22: the competitors list is a function of the per-source listing lists
\* and the fixed source order: every entry carries the name, address,
\* category and source of the first listing with its key, and the entries
\* stand in the one order given by number of sources, sort distance and
\* first listing, so that merging and sorting the same lists again yields
\* the same list, entry for entry and in the same order.
C22_MergeIsFunctionOfListings ==
    Done =>
        LET listingKey == [p \in Listings |-> competitorKey(ListingAt(p))]
            first == [k \in 1..Len(results.competitors) |->
                         FirstListing(listingKey, competitorKey(results.competitors[k]))]
        IN  /\ \A k \in 1..Len(results.competitors) :
                  LET c == results.competitors[k]
                      x == ListingAt(first[k])
                  IN  /\ c.name = x.name /\ c.address = x.address
                      /\ c.category = x.category /\ c.source = x.source
                      /\ c.sources[1] = first[k][1]
            /\ \A k \in 1..Len(results.competitors), l \in 1..Len(results.competitors) :
                  k < l => Precedes(results.competitors[k], first[k],
                                    results.competitors[l], first[l])

\* two entries first listed by different providers are tied in number of
\* sources and in sort distance: only their first listings order them
C22_Witness ==
    /\ Done
    /\ Len(results.competitors) >= 2
    /\ \E k \in 1..Len(results.competitors), l \in 1..Len(results.competitors) :
          /\ k < l
          /\ Tied(k, l)
          /\ results.competitors[k].sources[1] # results.competitors[l].sources[1]

----------------------------------------------------------------------------
(* Which listings share an entry. *)

\* the entries that list the source of listing p and have its normalized
\* name and address
OwnEntries(p) ==
    {k \in 1..Len(results.competitors) :
        /\ includes(results.competitors[k].sources, p[1])
        /\ NormalizedPair(results.competitors[k]) = NormalizedPair(ListingAt(p))}

\* C25: two listings are merged into one entry only if their normalized
\* names are equal and their normalized addresses are equal: every listing
\* is in an entry of its own normalized name and address, and the entries
\* are as many as the distinct pairs of normalized name and address, so that
\* name "a_b" at address "c" and name "a" at address "b_c" keep two entries.
C25_MergedOnlyIfNameAndAddressEqual ==
    Done =>
        /\ \A p \in Listings : OwnEntries(p) # {}
        /\ Len(results.competitors) =
               Cardinality({NormalizedPair(ListingAt(p)) : p \in Listings})

----------------------------------------------------------------------------
(* Required query parameters. *)

\* the query parameters the routes declare required in their 400 answers
RequiredParameters(rt) ==
    CASE rt = "/api/tmap/search"          -> {"keyword"}
      [] rt = "/api/tmap/reverse-geocode" -> {"lat", "lon"}
      [] rt = "/api/semas/area"           -> {"code"}
      [] rt = "/api/semas/upjong"         -> {"code"}
      [] rt = "/api/semas/radius"         -> {"cx", "cy"}
      [] rt = "/api/naver/local"          -> {"query"}
      [] rt = "/api/analysis/multi"       -> {"cx", "cy"}

\* a required parameter of the request being handled is missing or empty
LacksRequired ==
    /\ route # NOSTR
    /\ \E p \in RequiredParameters(route) : req[p] = NOSTR \/ req[p] = ""

\* C30: a request that lacks a required query parameter (missing or empty)
\* is answered 400 with an error body and no request is sent to any
\* provider; /api/analysis/multi sends a request to a provider only when cx
\* and cy are both given.
C30_MissingParameterIs400 ==
    /\ LacksRequired =>
          /\ pc = "done"
          /\ status = 400
          /\ DOMAIN results = {"error"}
          /\ upstream = {}
          /\ fetched = << >>
    /\ (route = "/api/analysis/multi" /\ upstream # {}) =>
          /\ req.cx \notin {NOSTR, ""}
          /\ req.cy \notin {NOSTR, ""}

\* a request with one of two required parameters given and the other
\* missing has been answered
C30_Witness ==
    /\ LacksRequired
    /\ pc = "done"
    /\ \E p \in RequiredParameters(route) : req[p] \notin {NOSTR, ""}

----------------------------------------------------------------------------
(* The selection on the page. *)

\* the category in effect
CategoryInEffect == <<selectedCategory, selectedCategoryName>>

\* the categories a badge, a list entry or typed text can choose
BadgeCategory(code) ==
    LET i == CHOOSE j \in 1..Len(categoryBadges) : categoryBadges[j].code = code
    IN  <<code, SelectChars(categoryBadges[i].text, Whitespace)>>
ListCategories == {<<categoryList[i].code, categoryList[i].name>> : i \in 1..Len(categoryList)}

\* C23: at most one category badge is marked selected and one single
\* category is in effect: that of the selected badge if there is one;
\* otherwise the initial category, an entry of the category list or the
\* text the user entered, which customCategoryInput then repeats.  Several
\* categories are never selected at once.
C23_OneCategoryInEffect ==
    /\ Cardinality(selectedBadges) <= 1
    /\ \A code \in selectedBadges : CategoryInEffect = BadgeCategory(code)
    /\ selectedBadges = {} =>
          \/ CategoryInEffect = <<"", NameAll>> /\ customCategoryInput = <<>>
          \/ CategoryInEffect \in ListCategories /\ customCategoryInput = selectedCategoryName
          \/ /\ selectedCategory = ""
             /\ selectedCategoryName # <<>>
             /\ customCategoryInput = selectedCategoryName

\* a list entry was chosen after a badge: no badge is selected any more and
\* the entry's category is in effect
C23_Witness ==
    /\ selectedBadges = {}
    /\ CategoryInEffect = <<"P", <<"t", "k", "d">>>>
    /\ "selectedCategoryInfo" \notin hidden

\* C24: the analysis radius is 500 m initially and after resetAll; it is
\* always one of 300, 500, 1000 and 2000 m, and exactly the button of that
\* radius is marked selected.
C24_OneRadiusSelected ==
    /\ selectedRadius = 500
    /\ [](/\ selectedRadius \in {300, 500, 1000, 2000}
          /\ selectedRadiusBtns = {selectedRadius})
    /\ [][resetAll => selectedRadius' = 500 /\ selectedRadiusBtns' = {500}]_vars

\* the user has chosen 2 km
C24_Witness ==
    /\ selectedRadius = 2000
    /\ selectedRadiusBtns = {2000}

----------------------------------------------------------------------------
(* The page's requests in flight. *)

\* the analyses started so far
Analyses == {i \in 1..Len(calls) : calls[i].fn = "startAnalysis"}

\* the analysis i has received its data
Analysed(i) == calls[i].stage \in {"performAIAnalysis", "done"}

\* C26: the radius, category and address recorded in lastAnalysisResult are
\* those sent in the request whose data it holds, whatever the user selects
\* while the request is in flight; and once every analysis started has
\* received its data, lastAnalysisResult is the result of the one started
\* last.
C26_ResultOfOwnRequest ==
    /\ lastAnalysisResult.call # 0 =>
          LET sent == calls[lastAnalysisResult.call].sent
          IN  /\ lastAnalysisResult.radius = sent.radius
              /\ lastAnalysisResult.category = sent.category
              /\ lastAnalysisResult.address = sent.address
    /\ (Analyses # {} /\ \A i \in Analyses : Analysed(i)) =>
          \A i \in Analyses : i <= lastAnalysisResult.call

\* the reverse-geocode requests in flight
Geocoding == {i \in 1..Len(calls) : calls[i].fn = "reverseGeocode" /\ calls[i].stage = "fetch"}

\* C27: once no reverse-geocode request is in flight, selectedAddress
\* describes the selected coordinates (selectedLat, selectedLon).
C27_AddressOfSelectedCoordinates ==
    (Geocoding = {} /\ selectedLat # NAN) =>
        /\ selectedAddress.lat = selectedLat
        /\ selectedAddress.lon = selectedLon

\* the page shows what it shows after resetAll
AsReset ==
    /\ selectedLat = NAN /\ selectedLon = NAN
    /\ selectedAddress = NoAddress
    /\ selectedCategory = "" /\ selectedCategoryName = NameAll
    /\ selectedRadius = 500
    /\ {"loadingSection", "resultSection", "recommendationSection"} \subseteq hidden

\* a step of the page that is not an action of the user: a call goes on
\* after an await
Completion == Len(calls') = Len(calls) /\ calls' # calls

\* C28: after resetAll the location, address, category and radius keep
\* their initial values and the loading, result and recommendation sections
\* stay hidden when a request that was in flight completes.
C28_ResetSurvivesCompletions ==
    [][(AsReset /\ Completion) => AsReset']_vars

\* C29: startAnalysis sends its data request exactly if a location is
\* selected: without one (selectedLat or selectedLon null) it only alerts,
\* leaving the sections and lastAnalysisResult as they are; with one, a
\* latitude or longitude of 0 included, it sends the request for it.
C29_AnalysisIffLocation ==
    [][startAnalysis =>
          IF selectedLat = NAN \/ selectedLon = NAN
          THEN /\ calls' = calls
               /\ hidden' = hidden
               /\ lastAnalysisResult' = lastAnalysisResult
          ELSE /\ Len(calls') = Len(calls) + 1
               /\ calls'[Len(calls')].fn = "startAnalysis"
               /\ calls'[Len(calls')].sent.lat = selectedLat
               /\ calls'[Len(calls')].sent.lon = selectedLon]_vars

====
